---------------------------- MODULE Spec2Model ----------------------------
(***************************************************************************)
(* Model of the request-dispatch core of beo-echo                          *)
(* (backend/src/echo/services/mock_service.go).                            *)
(*                                                                         *)
(* One request is followed through MockService.HandleRequest: alias        *)
(* resolution, the switch on the project mode, the mock / proxy /          *)
(* forwarder sub-flows, response selection, delay composition and the      *)
(* upstream forwarder executeProxyRequest.  The repository, the            *)
(* compressors and the upstream server are collaborators outside the       *)
(* service: every call to them returns one of the results the call can     *)
(* return, chosen nondeterministically at the step that makes the call.    *)
(* Request paths are not tracked: which endpoint a path matches is the     *)
(* repository's answer.                                                    *)
(***************************************************************************)
EXTENDS Naturals, Integers, Sequences, FiniteSets, TLC

(***************************************************************************)
(* Bounds of the model.                                                    *)
(***************************************************************************)
\* longest response list FindResponsesByEndpointID returns
MaxResponses == 2
\* largest delay_ms configured at any tier
MaxDelay == 1
\* largest upstream latency measured, in milliseconds
MaxLatency == 1
\* longest response list the selector specification gives the selector
MaxSelectorLen == 3
\* number of selections the handlers of the round-robin specification start
MaxSelections == 3
\* largest delay_ms of a tier in the delay specification
MaxTierDelay == 3
\* most rules of a response given to matchesRules
MaxRules == 2
\* most reads of the request body by body rules before the forward
MaxReads == 2
\* most upstream calls followed along a chain of forwards
MaxHops == 2

(***************************************************************************)
(* Go strings.  A string on which the code works character by character   *)
(* (strings.ToLower, strings.HasPrefix, header-key canonicalisation) is    *)
(* looked up in Chars, which spells the literals the model uses.           *)
(***************************************************************************)
Chars(s) ==
    CASE s = ""                        -> << >>
      [] s = "beo-echo"                -> <<"b","e","o","-","e","c","h","o">>
      [] s = "Beo"                     -> <<"B","e","o">>
      [] s = "Beo-Echo-Loop-Detect"    -> <<"B","e","o","-","E","c","h","o","-","L","o","o","p","-","D","e","t","e","c","t">>
      [] s = "beo-echo-loop-detect"    -> <<"b","e","o","-","e","c","h","o","-","l","o","o","p","-","d","e","t","e","c","t">>
      [] s = "Beo-Echo-Response-Type"  -> <<"B","e","o","-","E","c","h","o","-","R","e","s","p","o","n","s","e","-","T","y","p","e">>
      [] s = "beo-echo-response-type"  -> <<"b","e","o","-","e","c","h","o","-","r","e","s","p","o","n","s","e","-","t","y","p","e">>
      [] s = "Beo-Echo-Latency-Ms"     -> <<"B","e","o","-","E","c","h","o","-","L","a","t","e","n","c","y","-","M","s">>
      [] s = "beo-echo-latency-ms"     -> <<"b","e","o","-","e","c","h","o","-","l","a","t","e","n","c","y","-","m","s">>
      [] s = "X-Env"                   -> <<"X","-","E","n","v">>
      [] s = "x-env"                   -> <<"x","-","e","n","v">>
      [] s = "Referer"                 -> <<"R","e","f","e","r","e","r">>
      [] s = "Accept"                  -> <<"A","c","c","e","p","t">>
      [] s = "Content-Type"            -> <<"C","o","n","t","e","n","t","-","T","y","p","e">>
      [] s = "Content-Encoding"        -> <<"C","o","n","t","e","n","t","-","E","n","c","o","d","i","n","g">>
      [] s = "content-encoding"        -> <<"c","o","n","t","e","n","t","-","e","n","c","o","d","i","n","g">>
      [] s = "static"                  -> <<"s","t","a","t","i","c">>
      [] s = "Static"                  -> <<"S","t","a","t","i","c">>
      [] s = "random"                  -> <<"r","a","n","d","o","m">>
      [] s = "round_robin"             -> <<"r","o","u","n","d","_","r","o","b","i","n">>
      [] s = "ROUND_ROBIN"             -> <<"R","O","U","N","D","_","R","O","B","I","N">>
      [] s = "weighted"                -> <<"w","e","i","g","h","t","e","d">>
      [] s = "equals"                  -> <<"e","q","u","a","l","s">>
      [] s = "Equals"                  -> <<"E","q","u","a","l","s">>
      [] s = "contains"                -> <<"c","o","n","t","a","i","n","s">>
      [] s = "CONTAINS"                -> <<"C","O","N","T","A","I","N","S">>
      [] s = "regex"                   -> <<"r","e","g","e","x">>
      [] s = "prod"                    -> <<"p","r","o","d">>
      [] s = "ro"                      -> <<"r","o">>
      [] s = "dev"                     -> <<"d","e","v">>
      [] s = "env"                     -> <<"e","n","v">>
      [] s = "true"                    -> <<"t","r","u","e">>
      [] s = "gzip"                    -> <<"g","z","i","p">>
      [] s = "GZIP"                    -> <<"G","Z","I","P">>
      [] s = "br"                      -> <<"b","r">>
      [] s = "identity"                -> <<"i","d","e","n","t","i","t","y">>
      [] s = "hello"                   -> <<"h","e","l","l","o">>
      [] s = "user"                    -> <<"u","s","e","r">>
      [] s = "id" -> <<"i","d">>
      [] s = "ok" -> <<"o","k">>
      [] s = "note" -> <<"n","o","t","e">>
      [] s = "ref" -> <<"r","e","f">>
      [] s = "name" -> <<"n","a","m","e">>
      [] s = "x" -> <<"x">>
      [] s = "user.name" -> <<"u","s","e","r",".","n","a","m","e">>
      [] s = "user.env.x" -> <<"u","s","e","r",".","e","n","v",".","x">>
      [] s = "5" -> <<"5">>
      [] s = "Prod" -> <<"P","r","o","d">>
      [] s = "deflate" -> <<"d","e","f","l","a","t","e">>
      [] s = "{\"id\":5,\"ok\":true,\"note\":\"\",\"ref\":null,\"user\":{\"env\":\"prod\"}}" -> <<"{","\"","i","d","\"",":","5",",","\"","o","k","\"",":","t","r","u","e",",","\"","n","o","t","e","\"",":","\"","\"",",","\"","r","e","f","\"",":","n","u","l","l",",","\"","u","s","e","r","\"",":","{","\"","e","n","v","\"",":","\"","p","r","o","d","\"","}","}">>
      [] s = "/projects" -> <<"/","p","r","o","j","e","c","t","s">>
      [] s = "/auth/refresh" -> <<"/","a","u","t","h","/","r","e","f","r","e","s","h">>
      [] s = "CONTENT-ENCODING" -> <<"C","O","N","T","E","N","T","-","E","N","C","O","D","I","N","G">>
      [] s = "user.env"                -> <<"u","s","e","r",".","e","n","v">>
      [] s = "{\"user\":{\"env\":\"prod\"}}" ->
             <<"{","\"","u","s","e","r","\"",":","{","\"","e","n","v","\"",":","\"","p","r","o","d","\"","}","}">>
      [] s = "{\"env\":\"prod\"}"      -> <<"{","\"","e","n","v","\"",":","\"","p","r","o","d","\"","}">>

KnownStrings ==
    { "", "beo-echo", "Beo", "Beo-Echo-Loop-Detect", "beo-echo-loop-detect",
      "Beo-Echo-Response-Type", "beo-echo-response-type", "Beo-Echo-Latency-Ms",
      "beo-echo-latency-ms", "X-Env", "x-env", "Referer", "Accept", "Content-Type",
      "Content-Encoding", "content-encoding", "static", "Static", "random",
      "round_robin", "ROUND_ROBIN", "weighted", "equals", "Equals", "contains",
      "CONTAINS", "regex", "prod", "ro", "dev", "env", "true", "gzip", "GZIP", "br",
      "identity", "hello", "user", "user.env", "{\"user\":{\"env\":\"prod\"}}",
      "{\"env\":\"prod\"}",
      "id", "ok", "note", "ref", "name", "x", "user.name", "user.env.x", "5", "Prod", "deflate", "CONTENT-ENCODING",
      "{\"id\":5,\"ok\":true,\"note\":\"\",\"ref\":null,\"user\":{\"env\":\"prod\"}}" }

\* the string spelled by a sequence of characters
Str(cs) == CHOOSE s \in KnownStrings : Chars(s) = cs

UpperCase == <<"A","B","C","D","E","F","G","H","I","J","K","L","M",
               "N","O","P","Q","R","S","T","U","V","W","X","Y","Z">>
LowerCase == <<"a","b","c","d","e","f","g","h","i","j","k","l","m",
               "n","o","p","q","r","s","t","u","v","w","x","y","z">>

LowerChar(c) ==
    IF \E i \in 1..26 : UpperCase[i] = c
    THEN LowerCase[CHOOSE i \in 1..26 : UpperCase[i] = c]
    ELSE c

UpperChar(c) ==
    IF \E i \in 1..26 : LowerCase[i] = c
    THEN UpperCase[CHOOSE i \in 1..26 : LowerCase[i] = c]
    ELSE c

\* strings.ToLower, on the characters of a string
ToLower(cs) == [i \in 1..Len(cs) |-> LowerChar(cs[i])]

\* strings.HasPrefix, on the characters of both strings
HasPrefix(cs, prefix) ==
    /\ Len(cs) >= Len(prefix)
    /\ SubSeq(cs, 1, Len(prefix)) = prefix

\* strings.Contains, on the characters of both strings
Contains(cs, sub) ==
    \E i \in 0..Len(cs) :
        /\ i + Len(sub) <= Len(cs)
        /\ SubSeq(cs, i + 1, i + Len(sub)) = sub

\* textproto.CanonicalMIMEHeaderKey, as http.Header's Get and Set apply it:
\* the first letter and every letter after a hyphen in upper case, the rest
\* in lower case
CanonicalHeaderKey(s) ==
    LET cs == Chars(s) IN
    Str([i \in 1..Len(cs) |->
            IF i = 1 \/ cs[i - 1] = "-" THEN UpperChar(cs[i]) ELSE LowerChar(cs[i])])

(***************************************************************************)
(* Pointers: nil is the empty sequence, a non-nil pointer the one-element  *)
(* sequence of what it points to.                                          *)
(***************************************************************************)
Nil == << >>
Ptr(v) == <<v>>
Deref(p) == p[1]

(***************************************************************************)
(* http.Header: a map from header name to the list of its values.          *)
(***************************************************************************)
EmptyHeader == [n \in {} |-> << >>]

\* http.Header.Get: the first value under the canonical form of the key
HeaderGet(h, key) ==
    LET k == CanonicalHeaderKey(key) IN
    IF k \in DOMAIN h /\ Len(h[k]) > 0 THEN h[k][1] ELSE ""

\* http.Header.Set: replaces the values under the canonical form of the key
HeaderSet(h, key, value) ==
    LET k == CanonicalHeaderKey(key) IN
    [n \in DOMAIN h \cup {k} |-> IF n = k THEN <<value>> ELSE h[n]]

(***************************************************************************)
(* The data model (package database): projects, endpoints, mock responses  *)
(* and rules, as the repository hands them to the service.                 *)
(***************************************************************************)
ModeMock == "mock"
ModeProxy == "proxy"
ModeForwarder == "forwarder"
ModeDisabled == "disabled"
\* a mode string the switch of HandleRequest does not know
ModeUnknown == "legacy"

ProjectModes == {ModeMock, ModeProxy, ModeForwarder, ModeDisabled, ModeUnknown}

\* systemConfig keys of the three default messages
DEFAULT_RESPONSE_PROJECT_NOT_FOUND == "DEFAULT_RESPONSE_PROJECT_NOT_FOUND"
DEFAULT_RESPONSE_ENDPOINT_NOT_FOUND == "DEFAULT_RESPONSE_ENDPOINT_NOT_FOUND"
DEFAULT_RESPONSE_NO_RESPONSE_CONFIGURED == "DEFAULT_RESPONSE_NO_RESPONSE_CONFIGURED"

\* An advance_config blob: the empty string, text that does not parse, or a
\* JSON object carrying delay_ms.
ConfigEmpty == [raw |-> "empty", delay_ms |-> 0]
ConfigMalformed == [raw |-> "malformed", delay_ms |-> 0]
ConfigDelay(n) == [raw |-> "json", delay_ms |-> n]

\* database.ParseProjectAdvanceConfig: the parsed DelayMs, or an error
ParseProjectAdvanceConfig(blob) ==
    IF blob.raw = "json" THEN [err |-> FALSE, DelayMs |-> blob.delay_ms]
    ELSE [err |-> TRUE, DelayMs |-> 0]

\* database.ParseEndpointAdvanceConfig: the parsed DelayMs, or an error
ParseEndpointAdvanceConfig(blob) ==
    IF blob.raw = "json" THEN [err |-> FALSE, DelayMs |-> blob.delay_ms]
    ELSE [err |-> TRUE, DelayMs |-> 0]

ProjectProxyURL == "http://upstream.test/base"
EndpointProxyURL == "http://endpoint-target.test"
\* a target url.Parse rejects
UnparseableURL == "http://bad host/%zz"

\* url.Parse: whether the target parses
URLParses(u) == u # UnparseableURL

ProxyTarget(u) == [URL |-> u]

Projects ==
    [ ID : {"p1"}, Alias : {"shop"}, Mode : ProjectModes,
      ActiveProxy : {Nil, Ptr(ProxyTarget(ProjectProxyURL)), Ptr(ProxyTarget(UnparseableURL))},
      AdvanceConfig : {ConfigEmpty, ConfigMalformed, ConfigDelay(MaxDelay)} ]

ResponseModes == {"Static", "random", "ROUND_ROBIN", "weighted"}

Endpoints ==
    [ ID : {"e1"}, UseProxy : BOOLEAN,
      ProxyTarget : {Nil, Ptr(ProxyTarget(EndpointProxyURL))},
      ResponseMode : ResponseModes,
      AdvanceConfig : {ConfigEmpty, ConfigDelay(MaxDelay)} ]

Rule(type, key, operator, value) ==
    [Type |-> type, Key |-> key, Operator |-> operator, Value |-> value]

\* the stored headers JSON of a response: whether it parses, and the object
StoredHeaders(ok, map) == [parses |-> ok, object |-> map]

NoHeaders == [n \in {} |-> ""]

MockResponse(id, priority, delay, fallback, rules, headers, status, body) ==
    [ ID |-> id, Priority |-> priority, DelayMS |-> delay, IsFallback |-> fallback,
      Rules |-> rules, Headers |-> headers, StatusCode |-> status, Body |-> body ]

\* the responses the repository of the dispatch specification holds
ResponsePool ==
    { MockResponse("r1", 1, 0, FALSE, << >>,
                   StoredHeaders(TRUE, [n \in {"Content-Type"} |-> "identity"]), 200, "hello"),
      MockResponse("r2", 2, MaxDelay, FALSE, <<Rule("header", "x-env", "Equals", "prod")>>,
                   StoredHeaders(TRUE, [n \in {"content-encoding"} |-> "GZIP"]), 201, "hello"),
      MockResponse("r3", 2, 0, TRUE, <<Rule("query", "env", "CONTAINS", "ro"), Rule("path", "user", "equals", "dev")>>,
                   StoredHeaders(FALSE, NoHeaders), 404, "hello"),
      MockResponse("r4", 3, 0, FALSE, <<Rule("body", "user.env", "equals", "prod")>>,
                   StoredHeaders(TRUE, [n \in {"Content-Encoding"} |-> "br"]), 200, "{\"env\":\"prod\"}") }

RECURSIVE SeqsOver(_, _)
\* the lists of at most n distinct elements of S, in every order
SeqsOver(S, n) ==
    IF n = 0 THEN { << >> }
    ELSE LET shorter == SeqsOver(S, n - 1) IN
         shorter \cup { Append(q, x) : q \in { p \in shorter : Len(p) = n - 1 },
                                       x \in S }

Distinct(q) == \A i, j \in 1..Len(q) : i # j => q[i].ID # q[j].ID

ResponseLists == { q \in SeqsOver(ResponsePool, MaxResponses) : Distinct(q) }

(***************************************************************************)
(* The inbound request: headers, the raw query string and the body.        *)
(***************************************************************************)
\* url.URL.Query: the parsed form of a raw query string
ParseQuery(raw) ==
    IF raw = "env=prod" THEN [n \in {"env"} |-> <<"prod">>]
    ELSE [n \in {} |-> << >>]

\* url.Values.Get: the first value of the parameter, by its exact name
QueryGet(values, key) ==
    IF key \in DOMAIN values /\ Len(values[key]) > 0 THEN values[key][1] ELSE ""

Request(header, rawQuery, body) ==
    [Header |-> header, RawQuery |-> rawQuery, Body |-> body]

H_None == EmptyHeader
H_Env == [n \in {"X-Env"} |-> <<"prod">>]
H_Loop == [n \in {"X-Env", "Beo-Echo-Loop-Detect"} |-> IF n = "X-Env" THEN <<"dev">> ELSE <<"true">>]
H_Many == [n \in {"Referer", "Accept", "Beo"} |->
             IF n = "Accept" THEN <<"prod", "dev">> ELSE <<"true">>]

\* the requests of the dispatch specification
Requests ==
    { Request(H_None, "", Nil),
      Request(H_Env, "env=prod", Ptr("{\"user\":{\"env\":\"prod\"}}")),
      Request(H_Loop, "env=prod", Ptr("hello")),
      Request(H_Many, "", Ptr("hello")) }


(***************************************************************************)
(* http.Response as the service builds it.  A body is a JSON envelope      *)
(* (with or without the "error" member), the bytes of a stored mock body   *)
(* under a content coding, or what the upstream server sent.               *)
(***************************************************************************)
JSONBody(isError, message) == [format |-> "json", error |-> isError, message |-> message]
MockBody(codec, data) == [format |-> codec, data |-> data]
UpstreamBody == [format |-> "upstream"]

HTTPResponse(status, header, body) == [StatusCode |-> status, Header |-> header, Body |-> body]

\* the error envelope built without its status code
createErrorResponse_NoStatus(statusCode, message) ==
    HTTPResponse(0,
                 HeaderSet(EmptyHeader, "Content-Type", "application/json"),
                 JSONBody(TRUE, message))

\* createErrorResponse: {"error": true, "message": message} with the status
createErrorResponse(statusCode, message) ==
    HTTPResponse(statusCode,
                 HeaderSet(EmptyHeader, "Content-Type", "application/json"),
                 JSONBody(TRUE, message))

\* createDefaultJSONResponse answering 404 with an error envelope
createDefaultJSONResponse_AsNotFound(message) ==
    HTTPResponse(404,
                 HeaderSet(EmptyHeader, "Content-Type", "application/json"),
                 JSONBody(TRUE, message))

\* createDefaultJSONResponse: {"message": message} with status 200
createDefaultJSONResponse(message) ==
    HTTPResponse(200,
                 HeaderSet(EmptyHeader, "Content-Type", "application/json; charset=utf-8"),
                 JSONBody(FALSE, message))

LoopDetectedResponse ==
    createErrorResponse(508, "Proxy loop detected: request contains beo-echo header")

NoProxyTargetResponse ==
    createErrorResponse(500, "No proxy target configured")

\* the loop check comparing the header name as it is spelled
HasBeoEchoHeader_CaseSensitive(header) ==
    \E name \in DOMAIN header : HasPrefix(Chars(name), Chars("beo-echo"))

\* the loop over req.Header that looks for a name with the beo-echo prefix
HasBeoEchoHeader(header) ==
    \E name \in DOMAIN header : HasPrefix(ToLower(Chars(name)), Chars("beo-echo"))

(***************************************************************************)
(* Delay composition.                                                      *)
(***************************************************************************)
\* applyDelay reading the project tier only when an endpoint is given
applyDelay_NoProjectTier(projectPtr, endpointPtr, responsePtr) ==
    LET d1 == IF responsePtr # Nil /\ Deref(responsePtr).DelayMS > 0
              THEN Deref(responsePtr).DelayMS ELSE 0
        d2 == IF endpointPtr # Nil /\ d1 = 0
              THEN (IF Deref(endpointPtr).AdvanceConfig.raw # "empty"
                    THEN LET c == ParseEndpointAdvanceConfig(Deref(endpointPtr).AdvanceConfig) IN
                         IF ~c.err /\ c.DelayMs > 0 THEN c.DelayMs ELSE d1
                    ELSE d1)
              ELSE d1
        d3 == IF projectPtr # Nil /\ endpointPtr # Nil /\ d2 = 0
              THEN (IF Deref(projectPtr).AdvanceConfig.raw # "empty"
                    THEN LET c == ParseProjectAdvanceConfig(Deref(projectPtr).AdvanceConfig) IN
                         IF ~c.err THEN c.DelayMs ELSE d2
                    ELSE d2)
              ELSE d2
    IN  IF d3 > 0 THEN d3 ELSE 0

\* applyDelay reading the endpoint tier whatever the response tier gave
applyDelay_EndpointOverrides(projectPtr, endpointPtr, responsePtr) ==
    LET d1 == IF responsePtr # Nil /\ Deref(responsePtr).DelayMS > 0
              THEN Deref(responsePtr).DelayMS ELSE 0
        d2 == IF endpointPtr # Nil
              THEN (IF Deref(endpointPtr).AdvanceConfig.raw # "empty"
                    THEN LET c == ParseEndpointAdvanceConfig(Deref(endpointPtr).AdvanceConfig) IN
                         IF ~c.err /\ c.DelayMs > 0 THEN c.DelayMs ELSE d1
                    ELSE d1)
              ELSE d1
        d3 == IF projectPtr # Nil /\ d2 = 0
              THEN (IF Deref(projectPtr).AdvanceConfig.raw # "empty"
                    THEN LET c == ParseProjectAdvanceConfig(Deref(projectPtr).AdvanceConfig) IN
                         IF ~c.err THEN c.DelayMs ELSE d2
                    ELSE d2)
              ELSE d2
    IN  IF d3 > 0 THEN d3 ELSE 0

\* applyDelay: the milliseconds slept for the tiers given (nil for a tier
\* that is not passed)
applyDelay(projectPtr, endpointPtr, responsePtr) ==
    LET d1 == IF responsePtr # Nil /\ Deref(responsePtr).DelayMS > 0
              THEN Deref(responsePtr).DelayMS ELSE 0
        d2 == IF endpointPtr # Nil /\ d1 = 0
              THEN (IF Deref(endpointPtr).AdvanceConfig.raw # "empty"
                    THEN LET c == ParseEndpointAdvanceConfig(Deref(endpointPtr).AdvanceConfig) IN
                         IF ~c.err /\ c.DelayMs > 0 THEN c.DelayMs ELSE d1
                    ELSE d1)
              ELSE d1
        d3 == IF projectPtr # Nil /\ d2 = 0
              THEN (IF Deref(projectPtr).AdvanceConfig.raw # "empty"
                    THEN LET c == ParseProjectAdvanceConfig(Deref(projectPtr).AdvanceConfig) IN
                         IF ~c.err THEN c.DelayMs ELSE d2
                    ELSE d2)
              ELSE d2
    IN  IF d3 > 0 THEN d3 ELSE 0

(***************************************************************************)
(* Rule matching.                                                          *)
(***************************************************************************)
\* the operator compared as written, without lower-casing
matchRuleValue_CaseSensitive(operator, actual, expected) ==
    CASE operator = "equals"   -> actual = expected
      [] operator = "contains" -> Contains(Chars(actual), Chars(expected))
      [] OTHER                 -> actual = expected

\* matchRuleValue: equals, contains, and equals for any other operator
matchRuleValue(operator, actual, expected) ==
    LET op == ToLower(Chars(operator)) IN
    CASE op = Chars("equals")   -> actual = expected
      [] op = Chars("contains") -> Contains(Chars(actual), Chars(expected))
      [] OTHER                  -> actual = expected

matchHeaderRule(rule, req) ==
    matchRuleValue(rule.Operator, HeaderGet(req.Header, rule.Key), rule.Value)

matchQueryRule(rule, req) ==
    matchRuleValue(rule.Operator, QueryGet(ParseQuery(req.RawQuery), rule.Key), rule.Value)

\* decoded JSON values
JSONString(v) == [t |-> "string", s |-> v]
JSONObject(fields) == [t |-> "object", fields |-> fields]
\* a decoded number, bool or null
JSONLeaf(t, v) == [t |-> t, v |-> v]

\* json.Unmarshal of the body into map[string]interface{}
JSONUnmarshalObject(body) ==
    CASE body = "{\"user\":{\"env\":\"prod\"}}" ->
            [err |-> FALSE,
             value |-> JSONObject([k \in {"user"} |->
                                     JSONObject([j \in {"env"} |-> JSONString("prod")])])]
      [] body = "{\"env\":\"prod\"}" ->
            [err |-> FALSE, value |-> JSONObject([k \in {"env"} |-> JSONString("prod")])]
      [] body = "{\"id\":5,\"ok\":true,\"note\":\"\",\"ref\":null,\"user\":{\"env\":\"prod\"}}" ->
            [err |-> FALSE,
             value |-> JSONObject([k \in {"id", "ok", "note", "ref", "user"} |->
                         CASE k = "id"   -> JSONLeaf("number", 5)
                           [] k = "ok"   -> JSONLeaf("bool", TRUE)
                           [] k = "note" -> JSONString("")
                           [] k = "ref"  -> JSONLeaf("null", Nil)
                           [] k = "user" -> JSONObject([j \in {"env"} |-> JSONString("prod")])])]
      [] OTHER -> [err |-> TRUE, value |-> JSONObject([k \in {} |-> JSONString("")])]

RECURSIVE SplitDotFrom(_, _, _)
\* the parts of cs after position i, given the characters of the part begun
SplitDotFrom(cs, i, part) ==
    IF i > Len(cs) THEN <<Str(part)>>
    ELSE IF cs[i] = "." THEN <<Str(part)>> \o SplitDotFrom(cs, i + 1, << >>)
    ELSE SplitDotFrom(cs, i + 1, Append(part, cs[i]))

\* strings.Split(key, ".")
SplitDot(key) == SplitDotFrom(Chars(key), 1, << >>)

\* json.Marshal of a decoded value (the default case of getNestedValue)
JSONMarshal(v) ==
    IF v = JSONObject([j \in {"env"} |-> JSONString("prod")]) THEN "{\"env\":\"prod\"}"
    ELSE "{\"user\":{\"env\":\"prod\"}}"

\* fmt.Sprintf("%v", v) of a decoded bool or number
FormatValue(v) ==
    CASE v.t = "bool" /\ v.v    -> "true"
      [] v.t = "bool" /\ ~v.v   -> "false"
      [] v.t = "number" /\ v.v = 5 -> "5"
      [] OTHER                    -> "0"

RECURSIVE Navigate(_, _, _)
\* the loop of getNestedValue from part i on, and the conversion to a string
Navigate(current, parts, i) ==
    IF i > Len(parts)
    THEN CASE current.t = "string"            -> current.s
           [] current.t \in {"bool", "number"} -> FormatValue(current)
           [] OTHER                           -> JSONMarshal(current)
    ELSE IF /\ current.t = "object"
            /\ parts[i] \in DOMAIN current.fields
            /\ current.fields[parts[i]].t # "null"
         THEN Navigate(current.fields[parts[i]], parts, i + 1)
         ELSE ""

\* getNestedValue: the value at the dot path, as a string; "" when missing
getNestedValue(data, key) == Navigate(data, SplitDot(key), 1)

\* the value at the path compared even when it is empty
matchBodyRule_NoFallback(rule, req) ==
    IF req.Body = Nil THEN FALSE
    ELSE LET bodyBytes == Deref(req.Body)
             decoded == JSONUnmarshalObject(bodyBytes)
         IN  IF ~decoded.err
             THEN matchRuleValue(rule.Operator, getNestedValue(decoded.value, rule.Key), rule.Value)
             ELSE matchRuleValue(rule.Operator, bodyBytes, rule.Value)

\* matchBodyRule: the value at the rule's path of a JSON body, else the raw body
matchBodyRule(rule, req) ==
    IF req.Body = Nil THEN FALSE
    ELSE LET bodyBytes == Deref(req.Body)
             decoded == JSONUnmarshalObject(bodyBytes)
             value == IF decoded.err THEN "" ELSE getNestedValue(decoded.value, rule.Key)
         IN  IF ~decoded.err /\ value # ""
             THEN matchRuleValue(rule.Operator, value, rule.Value)
             ELSE matchRuleValue(rule.Operator, bodyBytes, rule.Value)

\* one matching rule being enough
matchesRules_AnyRule(response, req) ==
    \E i \in 1..Len(response.Rules) :
        LET rule == response.Rules[i] IN
        CASE rule.Type = "header" -> matchHeaderRule(rule, req)
          [] rule.Type = "query"  -> matchQueryRule(rule, req)
          [] rule.Type = "body"   -> matchBodyRule(rule, req)
          [] OTHER                -> TRUE

\* matchesRules: every header, query and body rule matches; other types pass
matchesRules(response, req) ==
    \A i \in 1..Len(response.Rules) :
        LET rule == response.Rules[i] IN
        CASE rule.Type = "header" -> matchHeaderRule(rule, req)
          [] rule.Type = "query"  -> matchQueryRule(rule, req)
          [] rule.Type = "body"   -> matchBodyRule(rule, req)
          [] OTHER                -> TRUE

\* filterResponsesByRules taking the branch of a nil request: every response
filterResponsesByRules_Unfiltered(responses, req) ==
    responses

\* the filter keeping only responses that have rules, and whose rules match
filterResponsesByRules_RuleBearingOnly(responses, req) ==
    SelectSeq(responses, LAMBDA r : Len(r.Rules) > 0 /\ matchesRules(r, req))

\* filterResponsesByRules: the responses whose rules match, in list order
filterResponsesByRules(responses, req) ==
    SelectSeq(responses, LAMBDA r : matchesRules(r, req))


(***************************************************************************)
(* Response selection.                                                     *)
(***************************************************************************)
Swap(q, j) == [q EXCEPT ![j] = q[j + 1], ![j + 1] = q[j]]

RECURSIVE BubblePass_SwapsTies(_, _, _)
\* the inner loop comparing with <=, which also swaps equal priorities
BubblePass_SwapsTies(q, j, last) ==
    IF j > last THEN q
    ELSE BubblePass_SwapsTies(IF q[j].Priority <= q[j + 1].Priority THEN Swap(q, j) ELSE q,
                              j + 1, last)

RECURSIVE BubblePass(_, _, _)
\* the inner loop of sortByPriority, from position j to position last
BubblePass(q, j, last) ==
    IF j > last THEN q
    ELSE BubblePass(IF q[j].Priority < q[j + 1].Priority THEN Swap(q, j) ELSE q,
                    j + 1, last)

RECURSIVE BubbleFrom(_, _)
\* the outer loop of sortByPriority, from pass i (counted from 0) on
BubbleFrom(q, i) ==
    IF i >= Len(q) - 1 THEN q
    ELSE BubbleFrom(BubblePass(q, 1, Len(q) - i - 1), i + 1)

\* the sort stopping after its first pass
sortByPriority_OnePass(responses) ==
    IF Len(responses) < 2 THEN responses ELSE BubblePass(responses, 1, Len(responses) - 1)

\* sortByPriority: bubble sort, higher priority first
sortByPriority(responses) == BubbleFrom(responses, 0)

\* The round-robin registry: the counter of an endpoint, 0 when it has none
CounterOf(registry, endpointID) ==
    IF endpointID \in DOMAIN registry THEN registry[endpointID] ELSE 0

\* getNextRoundRobinResponse: reads and advances the endpoint's counter and
\* returns responses[counter mod len(responses)]
getNextRoundRobinResponse(registry, endpointID, responses) ==
    LET counter == CounterOf(registry, endpointID) IN
    [ response |-> responses[(counter % Len(responses)) + 1],
      registry |-> [id \in DOMAIN registry \cup {endpointID} |->
                       IF id = endpointID THEN counter + 1 ELSE registry[id]] ]

\* the fallback scan stopping at the first response flagged is_fallback
FallbackCandidates_FirstWins(responses) ==
    LET flagged == { i \in 1..Len(responses) :
                        Len(responses[i].Rules) # 0 /\ responses[i].IsFallback }
    IN  IF flagged = {} THEN { Nil }
        ELSE { Ptr(responses[CHOOSE i \in flagged : \A j \in flagged : i <= j]) }

\* The fallback scan of selectResponseWithEndpoint (lines 283-293): what
\* fallbackResponses points to after the loop.  The pointer is taken of the
\* loop variable: with a loop variable per iteration (Go 1.22 on) it is the
\* last response flagged is_fallback that has rules, with one loop variable
\* for the whole loop (before Go 1.22) it is the last response of the list.
FallbackCandidates(responses) ==
    LET flagged == { i \in 1..Len(responses) :
                        Len(responses[i].Rules) # 0 /\ responses[i].IsFallback }
    IN  IF flagged = {} THEN { Nil }
        ELSE { Ptr(responses[CHOOSE i \in flagged : \A j \in flagged : j <= i]),
               Ptr(responses[Len(responses)]) }

\* the selector returning nothing as soon as no response is valid
selectResponseWithEndpoint_NoFallback(registry, endpointID, responses, mode, req) ==
    LET filtered == filterResponsesByRules(responses, req)
        validResponses ==
            IF Len(filtered) = 0
            THEN SelectSeq(responses, LAMBDA r : Len(r.Rules) = 0)
            ELSE filtered
        sorted == sortByPriority(validResponses)
        m == ToLower(Chars(mode))
    IN  IF Len(validResponses) = 0
        THEN { [response |-> Nil, registry |-> registry] }
        ELSE CASE m = Chars("static") ->
                    { [response |-> Ptr(sorted[1]), registry |-> registry] }
               [] m = Chars("round_robin") ->
                    LET next == getNextRoundRobinResponse(registry, endpointID, sorted) IN
                    { [response |-> Ptr(next.response), registry |-> next.registry] }
               [] OTHER ->
                    { [response |-> Ptr(sorted[i]), registry |-> registry] :
                        i \in 1..Len(sorted) }

\* the selector switching on the mode as it is spelled
selectResponseWithEndpoint_CaseSensitive(registry, endpointID, responses, mode, req) ==
    LET filtered == filterResponsesByRules(responses, req)
        validResponses ==
            IF Len(filtered) = 0
            THEN SelectSeq(responses, LAMBDA r : Len(r.Rules) = 0)
            ELSE filtered
        fallbacks == IF Len(filtered) = 0 THEN FallbackCandidates(responses) ELSE { Nil }
        sorted == sortByPriority(validResponses)
        m == Chars(mode)
    IN  IF Len(validResponses) = 0
        THEN { [response |-> f, registry |-> registry] : f \in fallbacks }
        ELSE CASE m = Chars("static") ->
                    { [response |-> Ptr(sorted[1]), registry |-> registry] }
               [] m = Chars("round_robin") ->
                    LET next == getNextRoundRobinResponse(registry, endpointID, sorted) IN
                    { [response |-> Ptr(next.response), registry |-> next.registry] }
               [] OTHER ->
                    { [response |-> Ptr(sorted[i]), registry |-> registry] :
                        i \in 1..Len(sorted) }

\* the selector keeping one round-robin counter for all endpoints
selectResponseWithEndpoint_SharedCounter(registry, endpointID, responses, mode, req) ==
    LET filtered == filterResponsesByRules(responses, req)
        validResponses ==
            IF Len(filtered) = 0
            THEN SelectSeq(responses, LAMBDA r : Len(r.Rules) = 0)
            ELSE filtered
        fallbacks == IF Len(filtered) = 0 THEN FallbackCandidates(responses) ELSE { Nil }
        sorted == sortByPriority(validResponses)
        m == ToLower(Chars(mode))
    IN  IF Len(validResponses) = 0
        THEN { [response |-> f, registry |-> registry] : f \in fallbacks }
        ELSE CASE m = Chars("static") ->
                    { [response |-> Ptr(sorted[1]), registry |-> registry] }
               [] m = Chars("round_robin") ->
                    LET next == getNextRoundRobinResponse(registry, "", sorted) IN
                    { [response |-> Ptr(next.response), registry |-> next.registry] }
               [] OTHER ->
                    { [response |-> Ptr(sorted[i]), registry |-> registry] :
                        i \in 1..Len(sorted) }

\* selectResponseWithEndpoint: the results the call can have, each with the
\* registry it leaves
selectResponseWithEndpoint(registry, endpointID, responses, mode, req) ==
    LET filtered == filterResponsesByRules(responses, req)
        validResponses ==
            IF Len(filtered) = 0
            THEN SelectSeq(responses, LAMBDA r : Len(r.Rules) = 0)
            ELSE filtered
        fallbacks == IF Len(filtered) = 0 THEN FallbackCandidates(responses) ELSE { Nil }
        sorted == sortByPriority(validResponses)
        m == ToLower(Chars(mode))
    IN  IF Len(validResponses) = 0
        THEN { [response |-> f, registry |-> registry] : f \in fallbacks }
        ELSE CASE m = Chars("static") ->
                    { [response |-> Ptr(sorted[1]), registry |-> registry] }
               [] m = Chars("round_robin") ->
                    LET next == getNextRoundRobinResponse(registry, endpointID, sorted) IN
                    { [response |-> Ptr(next.response), registry |-> next.registry] }
               [] OTHER ->
                    { [response |-> Ptr(sorted[i]), registry |-> registry] :
                        i \in 1..Len(sorted) }

(***************************************************************************)
(* Building the mock response.                                             *)
(***************************************************************************)
\* the header looked for under the exact name content-encoding
ContentEncodings_CaseSensitive(headers) ==
    IF "content-encoding" \in DOMAIN headers
    THEN { Str(ToLower(Chars(headers["content-encoding"]))) }
    ELSE { "" }

\* the Content-Encoding the loop over the parsed headers can find: the
\* lower-cased value of a header named content-encoding in any letter case
ContentEncodings(headers) ==
    LET named == { k \in DOMAIN headers : ToLower(Chars(k)) = Chars("content-encoding") }
    IN  IF named = {} THEN { "" } ELSE { Str(ToLower(Chars(headers[k]))) : k \in named }

\* the header map of the response: every parsed header set under its
\* canonical name
ResponseHeaders(headers) ==
    { h \in [ { CanonicalHeaderKey(k) : k \in DOMAIN headers } ->
                { <<headers[k]>> : k \in DOMAIN headers } ] :
        \A c \in DOMAIN h : \E k \in DOMAIN headers :
            CanonicalHeaderKey(k) = c /\ h[c] = <<headers[k]>> }

\* gzip.Writer: what the buffer holds after Write and Close: the gzip
\* header, the deflated bytes, and the trailer with checksum and size
GzipCompress(bytes) == <<"gzip-header">> \o bytes \o <<"crc32", "isize">>

\* brotli.Writer: what the buffer holds after Write and Close: the stream
\* header, the compressed bytes, and the last empty block
BrotliCompress(bytes) == <<"brotli-header">> \o bytes \o <<"brotli-last">>

\* createMockResponse: the results the call can have: the response built, or
\* an error of the gzip or Brotli writer
createMockResponse(mockResp) ==
    LET headers == IF mockResp.Headers.parses THEN mockResp.Headers.object ELSE NoHeaders
        buf(codec) ==
            CASE codec = "gzip" -> GzipCompress(Chars(mockResp.Body))
              [] codec = "br"   -> BrotliCompress(Chars(mockResp.Body))
              [] OTHER          -> Chars(mockResp.Body)
        built(codec) ==
            { [resp |-> Ptr([ StatusCode |-> mockResp.StatusCode,
                              Header |-> h,
                              Body |-> MockBody(codec, buf(codec)),
                              ContentLength |-> Len(buf(codec)) ]),
               err |-> FALSE] : h \in ResponseHeaders(headers) }
        failed == { [resp |-> Nil, err |-> TRUE] }
    IN  UNION { CASE contentEncoding = "gzip" -> built("gzip") \cup failed
                  [] contentEncoding = "br"   -> built("br") \cup failed
                  [] OTHER                    -> built("identity")
                : contentEncoding \in ContentEncodings(headers) }


(***************************************************************************)
(* The state of one request in HandleRequest.                              *)
(***************************************************************************)
VARIABLES
    pc,          \* the position of the handler
    req,         \* the inbound *http.Request
    project,     \* what FindProjectByAlias returned (nil on error)
    endpoint,    \* what FindMatchingEndpoint returned (nil on error)
    responses,   \* what FindResponsesByEndpointID returned
    response,    \* what selectResponseWithEndpoint returned (nil for none)
    proxyCall,   \* the frame of executeProxyRequest
    result,      \* what HandleRequest returned (nil while it runs)
    calls,       \* the calls made so far to collaborators and helpers, in order
    roundRobin   \* the process-wide round-robin registry

vars == <<pc, req, project, endpoint, responses, response, proxyCall, result, calls, roundRobin>>

\* one entry of calls
Call(op, arg, ms) == [op |-> op, arg |-> arg, ms |-> ms]

\* the tiers an applyDelay call was given
Tiers(projectPtr, endpointPtr, responsePtr) ==
    IF responsePtr # Nil THEN "project,endpoint,response"
    ELSE IF endpointPtr # Nil THEN "project,endpoint"
    ELSE "project"

\* applyDelay called twice where the code calls it once
Delayed_Twice(log, projectPtr, endpointPtr, responsePtr) ==
    LET entry == Call("applyDelay", Tiers(projectPtr, endpointPtr, responsePtr),
                      applyDelay(projectPtr, endpointPtr, responsePtr))
    IN  Append(Append(log, entry), entry)

\* calls after s.applyDelay(project, endpoint, response) returned
Delayed(log, projectPtr, endpointPtr, responsePtr) ==
    Append(log, Call("applyDelay", Tiers(projectPtr, endpointPtr, responsePtr),
                     applyDelay(projectPtr, endpointPtr, responsePtr)))

\* the values HandleRequest returns
Returned(resp, err, projectID, executionMode, matched) ==
    Ptr([resp |-> resp, err |-> err, projectID |-> projectID,
         executionMode |-> executionMode, matched |-> matched])

NoCall == [caller |-> "", target |-> "", bodyBytes |-> "", newReq |-> Nil, resp |-> Nil, err |-> FALSE]

Init ==
    /\ pc = "HandleRequest"
    /\ req \in Requests
    /\ project = Nil
    /\ endpoint = Nil
    /\ responses = << >>
    /\ response = Nil
    /\ proxyCall = NoCall
    /\ result = Nil
    /\ calls = << >>
    /\ roundRobin = [id \in {} |-> 0]

(***************************************************************************)
(* HandleRequest (lines 39-68).                                            *)
(***************************************************************************)
\* lines 41-45: resolve the alias; the default envelope when it fails
HandleRequest ==
    /\ pc = "HandleRequest"
    /\ \E found \in {Nil} \cup { Ptr(p) : p \in Projects } :
        /\ project' = found
        /\ IF found = Nil
           THEN /\ calls' = calls \o <<Call("FindProjectByAlias", "err", 0),
                                       Call("createDefaultJSONResponse", DEFAULT_RESPONSE_PROJECT_NOT_FOUND, 0)>>
                /\ result' = Returned(Ptr(createDefaultJSONResponse(DEFAULT_RESPONSE_PROJECT_NOT_FOUND)),
                                      FALSE, "", "", FALSE)
                /\ pc' = "done"
           ELSE /\ calls' = Append(calls, Call("FindProjectByAlias", "ok", 0))
                /\ result' = result
                /\ pc' = "switch"
    /\ UNCHANGED <<req, endpoint, responses, response, proxyCall, roundRobin>>

\* the switch without its case for ModeDisabled
SwitchMode_NoDisabledCase ==
    /\ pc = "switch"
    /\ LET p == Deref(project) IN
       CASE p.Mode = ModeMock ->
                /\ pc' = "handleMockMode"
                /\ UNCHANGED <<result, calls>>
         [] p.Mode = ModeProxy ->
                /\ pc' = "handleProxyMode"
                /\ UNCHANGED <<result, calls>>
         [] p.Mode = ModeForwarder ->
                /\ pc' = "handleForwarderMode"
                /\ UNCHANGED <<result, calls>>
         [] OTHER ->
                /\ pc' = "done"
                /\ calls' = Append(calls, Call("createErrorResponse", "Invalid project mode", 0))
                /\ result' = Returned(Ptr(createErrorResponse(500, "Invalid project mode")),
                                      FALSE, p.ID, p.Mode, FALSE)
    /\ UNCHANGED <<req, project, endpoint, responses, response, proxyCall, roundRobin>>

\* lines 53-67: the switch on project.Mode
SwitchMode ==
    /\ pc = "switch"
    /\ LET p == Deref(project) IN
       CASE p.Mode = ModeMock ->
                /\ pc' = "handleMockMode"
                /\ UNCHANGED <<result, calls>>
         [] p.Mode = ModeProxy ->
                /\ pc' = "handleProxyMode"
                /\ UNCHANGED <<result, calls>>
         [] p.Mode = ModeForwarder ->
                /\ pc' = "handleForwarderMode"
                /\ UNCHANGED <<result, calls>>
         [] p.Mode = ModeDisabled ->
                /\ pc' = "done"
                /\ calls' = Append(calls, Call("createErrorResponse", "Service is disabled", 0))
                /\ result' = Returned(Ptr(createErrorResponse(503, "Service is disabled")),
                                      FALSE, p.ID, p.Mode, FALSE)
         [] OTHER ->
                /\ pc' = "done"
                /\ calls' = Append(calls, Call("createErrorResponse", "Invalid project mode", 0))
                /\ result' = Returned(Ptr(createErrorResponse(500, "Invalid project mode")),
                                      FALSE, p.ID, p.Mode, FALSE)
    /\ UNCHANGED <<req, project, endpoint, responses, response, proxyCall, roundRobin>>

\* the frame of a call executeProxyRequest(ctx, target, method, path, query, req)
EnterProxyCall(caller, target) ==
    [caller |-> caller, target |-> target, bodyBytes |-> "", newReq |-> Nil, resp |-> Nil, err |-> FALSE]

\* what FindResponsesByEndpointID can return: an error, or a list
FindResponsesResults ==
    { [err |-> TRUE, list |-> << >>] } \cup { [err |-> FALSE, list |-> q] : q \in ResponseLists }

(***************************************************************************)
(* handleMockMode (lines 71-113).                                          *)
(***************************************************************************)
\* lines 72-79: look the endpoint up; delay and default envelope on a miss
MockFindEndpoint ==
    /\ pc = "handleMockMode"
    /\ \E found \in {Nil} \cup { Ptr(e) : e \in Endpoints } :
        /\ endpoint' = found
        /\ IF found = Nil
           THEN /\ calls' = Append(Delayed(Append(calls, Call("FindMatchingEndpoint", "err", 0)),
                                           project, Nil, Nil),
                                   Call("createDefaultJSONResponse", DEFAULT_RESPONSE_ENDPOINT_NOT_FOUND, 0))
                /\ result' = Returned(Ptr(createDefaultJSONResponse(DEFAULT_RESPONSE_ENDPOINT_NOT_FOUND)),
                                      FALSE, Deref(project).ID, ModeMock, FALSE)
                /\ pc' = "done"
           ELSE /\ calls' = Append(calls, Call("FindMatchingEndpoint", "ok", 0))
                /\ result' = result
                /\ pc' = "mock_endpoint"
    /\ UNCHANGED <<req, project, responses, response, proxyCall, roundRobin>>

\* the endpoint's request forwarded to the project's proxy target
MockUseProxy_ToActiveProxy ==
    /\ pc = "mock_endpoint"
    /\ Deref(endpoint).UseProxy /\ Deref(endpoint).ProxyTarget # Nil
    /\ calls' = Delayed(calls, project, endpoint, Nil)
    /\ proxyCall' = EnterProxyCall("handleMockMode", ProjectProxyURL)
    /\ pc' = "executeProxyRequest"
    /\ UNCHANGED <<req, project, endpoint, responses, response, result, roundRobin>>

\* lines 82-86: an endpoint configured for proxying forwards to its own target
MockUseProxy ==
    /\ pc = "mock_endpoint"
    /\ Deref(endpoint).UseProxy /\ Deref(endpoint).ProxyTarget # Nil
    /\ calls' = Delayed(calls, project, endpoint, Nil)
    /\ proxyCall' = EnterProxyCall("handleMockMode", Deref(Deref(endpoint).ProxyTarget).URL)
    /\ pc' = "executeProxyRequest"
    /\ UNCHANGED <<req, project, endpoint, responses, response, result, roundRobin>>

\* the forwarded result reported under the mode of the project
MockReturnProxy_AsMock ==
    /\ pc = "proxy_return"
    /\ proxyCall.caller = "handleMockMode"
    /\ result' = Returned(proxyCall.resp, proxyCall.err, Deref(project).ID, ModeMock, TRUE)
    /\ pc' = "done"
    /\ UNCHANGED <<req, project, endpoint, responses, response, proxyCall, calls, roundRobin>>

\* lines 86-87 and 55-56: the forwarded result, reported as proxy and matched
MockReturnProxy ==
    /\ pc = "proxy_return"
    /\ proxyCall.caller = "handleMockMode"
    /\ result' = Returned(proxyCall.resp, proxyCall.err, Deref(project).ID, ModeProxy, TRUE)
    /\ pc' = "done"
    /\ UNCHANGED <<req, project, endpoint, responses, response, proxyCall, calls, roundRobin>>

\* lines 91-98: load the responses; delay and default envelope when none
MockFindResponses ==
    /\ pc = "mock_endpoint"
    /\ ~(Deref(endpoint).UseProxy /\ Deref(endpoint).ProxyTarget # Nil)
    /\ \E found \in FindResponsesResults :
        /\ responses' = found.list
        /\ IF found.err \/ Len(found.list) = 0
           THEN /\ calls' = Append(Delayed(Append(calls, Call("FindResponsesByEndpointID",
                                                              IF found.err THEN "err" ELSE "ok", 0)),
                                           project, endpoint, Nil),
                                   Call("createDefaultJSONResponse", DEFAULT_RESPONSE_NO_RESPONSE_CONFIGURED, 0))
                /\ result' = Returned(Ptr(createDefaultJSONResponse(DEFAULT_RESPONSE_NO_RESPONSE_CONFIGURED)),
                                      FALSE, Deref(project).ID, ModeMock, TRUE)
                /\ pc' = "done"
           ELSE /\ calls' = Append(calls, Call("FindResponsesByEndpointID", "ok", 0))
                /\ result' = result
                /\ pc' = "mock_select"
    /\ UNCHANGED <<req, project, endpoint, response, proxyCall, roundRobin>>

\* an empty selection reported as matched
MockSelect_NilMatched ==
    /\ pc = "mock_select"
    /\ \E sel \in selectResponseWithEndpoint(roundRobin, Deref(endpoint).ID, responses,
                                             Deref(endpoint).ResponseMode, req) :
        /\ response' = sel.response
        /\ roundRobin' = sel.registry
        /\ IF sel.response = Nil
           THEN /\ calls' = calls \o <<Call("selectResponseWithEndpoint", "nil", 0),
                                       Call("createDefaultJSONResponse", DEFAULT_RESPONSE_NO_RESPONSE_CONFIGURED, 0)>>
                /\ result' = Returned(Ptr(createDefaultJSONResponse(DEFAULT_RESPONSE_NO_RESPONSE_CONFIGURED)),
                                      FALSE, Deref(project).ID, ModeMock, TRUE)
                /\ pc' = "done"
           ELSE /\ calls' = Append(calls, Call("selectResponseWithEndpoint", Deref(sel.response).ID, 0))
                /\ result' = result
                /\ pc' = "mock_build"
    /\ UNCHANGED <<req, project, endpoint, responses, proxyCall>>

\* lines 101-105: select a response; default envelope when none is selected
MockSelect ==
    /\ pc = "mock_select"
    /\ \E sel \in selectResponseWithEndpoint(roundRobin, Deref(endpoint).ID, responses,
                                             Deref(endpoint).ResponseMode, req) :
        /\ response' = sel.response
        /\ roundRobin' = sel.registry
        /\ IF sel.response = Nil
           THEN /\ calls' = calls \o <<Call("selectResponseWithEndpoint", "nil", 0),
                                       Call("createDefaultJSONResponse", DEFAULT_RESPONSE_NO_RESPONSE_CONFIGURED, 0)>>
                /\ result' = Returned(Ptr(createDefaultJSONResponse(DEFAULT_RESPONSE_NO_RESPONSE_CONFIGURED)),
                                      FALSE, Deref(project).ID, ModeMock, FALSE)
                /\ pc' = "done"
           ELSE /\ calls' = Append(calls, Call("selectResponseWithEndpoint", Deref(sel.response).ID, 0))
                /\ result' = result
                /\ pc' = "mock_build"
    /\ UNCHANGED <<req, project, endpoint, responses, proxyCall>>

\* the selected response built first and the delay slept afterwards
MockBuild_DelayAfterBuild ==
    /\ pc = "mock_build"
    /\ \E out \in createMockResponse(Deref(response)) :
        /\ calls' = Delayed(Append(calls, Call("createMockResponse",
                                                IF out.err THEN "err" ELSE "ok", 0)),
                             project, endpoint, response)
        /\ result' = Returned(out.resp, out.err, Deref(project).ID, ModeMock, TRUE)
    /\ pc' = "done"
    /\ UNCHANGED <<req, project, endpoint, responses, response, proxyCall, roundRobin>>

\* lines 108-112 and 55-56: delay, then build the selected response
MockBuild ==
    /\ pc = "mock_build"
    /\ \E out \in createMockResponse(Deref(response)) :
        /\ calls' = Append(Delayed(calls, project, endpoint, response),
                           Call("createMockResponse", IF out.err THEN "err" ELSE "ok", 0))
        /\ result' = Returned(out.resp, out.err, Deref(project).ID, ModeMock, TRUE)
    /\ pc' = "done"
    /\ UNCHANGED <<req, project, endpoint, responses, response, proxyCall, roundRobin>>


(***************************************************************************)
(* handleProxyMode (lines 116-160).                                        *)
(***************************************************************************)
\* lines 117-126: no proxy target, then the loop check
ProxyCheck ==
    /\ pc = "handleProxyMode"
    /\ LET p == Deref(project) IN
       IF p.ActiveProxy = Nil
       THEN /\ calls' = Append(calls, Call("createErrorResponse", "No proxy target configured", 0))
            /\ result' = Returned(Ptr(NoProxyTargetResponse), FALSE, p.ID, p.Mode, FALSE)
            /\ pc' = "done"
       ELSE IF HasBeoEchoHeader(req.Header)
       THEN /\ calls' = Append(calls, Call("createErrorResponse", "Proxy loop detected", 0))
            /\ result' = Returned(Ptr(LoopDetectedResponse), FALSE, p.ID, p.Mode, FALSE)
            /\ pc' = "done"
       ELSE /\ pc' = "proxy_find"
            /\ UNCHANGED <<result, calls>>
    /\ UNCHANGED <<req, project, endpoint, responses, response, proxyCall, roundRobin>>

\* proxy mode honouring the endpoint's use_proxy flag as mock mode does
ProxyFindEndpoint_ConsultsUseProxy ==
    /\ pc = "proxy_find"
    /\ \E found \in {Nil} \cup { Ptr(e) : e \in Endpoints } :
        /\ endpoint' = found
        /\ calls' = Append(calls, Call("FindMatchingEndpoint", IF found = Nil THEN "err" ELSE "ok", 0))
        /\ IF found # Nil /\ Deref(found).UseProxy /\ Deref(found).ProxyTarget # Nil
           THEN /\ proxyCall' = EnterProxyCall("handleProxyMode", Deref(Deref(found).ProxyTarget).URL)
                /\ pc' = "executeProxyRequest"
           ELSE /\ proxyCall' = proxyCall
                /\ pc' = IF found = Nil THEN "proxy_forward" ELSE "proxy_responses"
    /\ UNCHANGED <<req, project, responses, response, result, roundRobin>>

\* lines 129-130: look for a mock endpoint first
ProxyFindEndpoint ==
    /\ pc = "proxy_find"
    /\ \E found \in {Nil} \cup { Ptr(e) : e \in Endpoints } :
        /\ endpoint' = found
        /\ calls' = Append(calls, Call("FindMatchingEndpoint", IF found = Nil THEN "err" ELSE "ok", 0))
        /\ pc' = IF found = Nil THEN "proxy_forward" ELSE "proxy_responses"
    /\ UNCHANGED <<req, project, responses, response, proxyCall, result, roundRobin>>

\* lines 132-133: load the responses of the endpoint found
ProxyFindResponses ==
    /\ pc = "proxy_responses"
    /\ \E found \in FindResponsesResults :
        /\ responses' = found.list
        /\ calls' = Append(calls, Call("FindResponsesByEndpointID", IF found.err THEN "err" ELSE "ok", 0))
        /\ pc' = IF ~found.err /\ Len(found.list) > 0 THEN "proxy_select" ELSE "proxy_forward"
    /\ UNCHANGED <<req, project, endpoint, response, proxyCall, result, roundRobin>>

\* lines 135-136: select a response
ProxySelect ==
    /\ pc = "proxy_select"
    /\ \E sel \in selectResponseWithEndpoint(roundRobin, Deref(endpoint).ID, responses,
                                             Deref(endpoint).ResponseMode, req) :
        /\ response' = sel.response
        /\ roundRobin' = sel.registry
        /\ calls' = Append(calls, Call("selectResponseWithEndpoint",
                                       IF sel.response = Nil THEN "nil" ELSE Deref(sel.response).ID, 0))
        /\ pc' = IF sel.response # Nil THEN "proxy_build" ELSE "proxy_forward"
    /\ UNCHANGED <<req, project, endpoint, responses, proxyCall, result>>

\* lines 138-146 and 58-59: delay, build the mock response and stamp it
ProxyBuild ==
    /\ pc = "proxy_build"
    /\ \E out \in createMockResponse(Deref(response)) :
        /\ calls' = Append(Delayed(calls, project, endpoint, response),
                           Call("createMockResponse", IF out.err THEN "err" ELSE "ok", 0))
        /\ IF ~out.err
           THEN /\ result' = Returned(
                        Ptr([Deref(out.resp) EXCEPT
                               !.Header = HeaderSet(@, "beo-echo-response-type", "mock")]),
                        FALSE, Deref(project).ID, Deref(project).Mode, TRUE)
                /\ pc' = "done"
           ELSE /\ result' = result
                /\ pc' = "proxy_forward"
    /\ UNCHANGED <<req, project, endpoint, responses, response, proxyCall, roundRobin>>

\* forwarding without the project-level delay
ProxyForward_NoDelay ==
    /\ pc = "proxy_forward"
    /\ proxyCall' = EnterProxyCall("handleProxyMode", Deref(Deref(project).ActiveProxy).URL)
    /\ pc' = "executeProxyRequest"
    /\ UNCHANGED <<req, project, endpoint, responses, response, result, calls, roundRobin>>

\* lines 153-154: project-level delay, then forward to the active proxy
ProxyForward ==
    /\ pc = "proxy_forward"
    /\ calls' = Delayed(calls, project, Nil, Nil)
    /\ proxyCall' = EnterProxyCall("handleProxyMode", Deref(Deref(project).ActiveProxy).URL)
    /\ pc' = "executeProxyRequest"
    /\ UNCHANGED <<req, project, endpoint, responses, response, result, roundRobin>>

\* the forwarded response reported as matched
ProxyReturn_Matched ==
    /\ pc = "proxy_return"
    /\ proxyCall.caller = "handleProxyMode"
    /\ result' = Returned(
            IF ~proxyCall.err /\ proxyCall.resp # Nil
            THEN Ptr([Deref(proxyCall.resp) EXCEPT
                        !.Header = HeaderSet(@, "beo-echo-response-type", "proxy")])
            ELSE proxyCall.resp,
            proxyCall.err, Deref(project).ID, Deref(project).Mode, TRUE)
    /\ pc' = "done"
    /\ UNCHANGED <<req, project, endpoint, responses, response, proxyCall, calls, roundRobin>>

\* lines 155-159 and 58-59: stamp the forwarded response and return it
ProxyReturn ==
    /\ pc = "proxy_return"
    /\ proxyCall.caller = "handleProxyMode"
    /\ result' = Returned(
            IF ~proxyCall.err /\ proxyCall.resp # Nil
            THEN Ptr([Deref(proxyCall.resp) EXCEPT
                        !.Header = HeaderSet(@, "beo-echo-response-type", "proxy")])
            ELSE proxyCall.resp,
            proxyCall.err, Deref(project).ID, Deref(project).Mode, FALSE)
    /\ pc' = "done"
    /\ UNCHANGED <<req, project, endpoint, responses, response, proxyCall, calls, roundRobin>>

(***************************************************************************)
(* handleForwarderMode (lines 163-182).                                    *)
(***************************************************************************)
\* lines 164-173: no proxy target, then the loop check
ForwarderCheck ==
    /\ pc = "handleForwarderMode"
    /\ LET p == Deref(project) IN
       IF p.ActiveProxy = Nil
       THEN /\ calls' = Append(calls, Call("createErrorResponse", "No proxy target configured", 0))
            /\ result' = Returned(Ptr(NoProxyTargetResponse), FALSE, p.ID, p.Mode, FALSE)
            /\ pc' = "done"
       ELSE IF HasBeoEchoHeader(req.Header)
       THEN /\ calls' = Append(calls, Call("createErrorResponse", "Proxy loop detected", 0))
            /\ result' = Returned(Ptr(LoopDetectedResponse), FALSE, p.ID, p.Mode, FALSE)
            /\ pc' = "done"
       ELSE /\ pc' = "forwarder_forward"
            /\ UNCHANGED <<result, calls>>
    /\ UNCHANGED <<req, project, endpoint, responses, response, proxyCall, roundRobin>>

\* the forwarder looking for a mock endpoint before it forwards
ForwarderForward_LooksUp ==
    /\ pc = "forwarder_forward"
    /\ calls' = Delayed(Append(calls, Call("FindMatchingEndpoint", "err", 0)), project, Nil, Nil)
    /\ proxyCall' = EnterProxyCall("handleForwarderMode", Deref(Deref(project).ActiveProxy).URL)
    /\ pc' = "executeProxyRequest"
    /\ UNCHANGED <<req, project, endpoint, responses, response, result, roundRobin>>

\* lines 179-181: project-level delay, then forward to the active proxy
ForwarderForward ==
    /\ pc = "forwarder_forward"
    /\ calls' = Delayed(calls, project, Nil, Nil)
    /\ proxyCall' = EnterProxyCall("handleForwarderMode", Deref(Deref(project).ActiveProxy).URL)
    /\ pc' = "executeProxyRequest"
    /\ UNCHANGED <<req, project, endpoint, responses, response, result, roundRobin>>

\* lines 181 and 61-62: the forwarded result, never matched
ForwarderReturn ==
    /\ pc = "proxy_return"
    /\ proxyCall.caller = "handleForwarderMode"
    /\ result' = Returned(proxyCall.resp, proxyCall.err, Deref(project).ID, Deref(project).Mode, FALSE)
    /\ pc' = "done"
    /\ UNCHANGED <<req, project, endpoint, responses, response, proxyCall, calls, roundRobin>>


(***************************************************************************)
(* executeProxyRequest (lines 187-271).                                    *)
(***************************************************************************)
\* the forwarder handing its failure to the caller as an error
ProxyCallReturns_AsError(resp) == [proxyCall EXCEPT !.err = TRUE]

\* the call returns resp with a nil error
ProxyCallReturns(resp) == [proxyCall EXCEPT !.resp = Ptr(resp)]

\* the forwarder relying on its callers for the loop check
ExecLoopCheck_Skipped ==
    /\ pc = "executeProxyRequest"
    /\ pc' = "exec_parse"
    /\ UNCHANGED <<req, project, endpoint, responses, response, proxyCall, result, calls, roundRobin>>

\* lines 189-193: the forwarder's own loop check
ExecLoopCheck ==
    /\ pc = "executeProxyRequest"
    /\ IF HasBeoEchoHeader(req.Header)
       THEN /\ calls' = Append(calls, Call("createErrorResponse", "Proxy loop detected", 0))
            /\ proxyCall' = ProxyCallReturns(LoopDetectedResponse)
            /\ pc' = "proxy_return"
       ELSE /\ pc' = "exec_parse"
            /\ UNCHANGED <<proxyCall, calls>>
    /\ UNCHANGED <<req, project, endpoint, responses, response, result, roundRobin>>

\* lines 195-214: parse the target URL
ExecParseURL ==
    /\ pc = "exec_parse"
    /\ IF ~URLParses(proxyCall.target)
       THEN /\ calls' = Append(calls, Call("createErrorResponse", "Invalid proxy URL", 0))
            /\ proxyCall' = ProxyCallReturns(createErrorResponse(500, "Invalid proxy URL"))
            /\ pc' = "proxy_return"
       ELSE /\ pc' = "exec_body"
            /\ UNCHANGED <<proxyCall, calls>>
    /\ UNCHANGED <<req, project, endpoint, responses, response, result, roundRobin>>

\* lines 217-225: read the inbound body and put a fresh reader in its place
ExecReadBody ==
    /\ pc = "exec_body"
    /\ IF req.Body = Nil
       THEN /\ pc' = "exec_request"
            /\ UNCHANGED <<req, proxyCall, calls>>
       ELSE \E readFails \in BOOLEAN :
            IF readFails
            THEN /\ calls' = Append(calls, Call("createErrorResponse", "Failed to read request body", 0))
                 /\ proxyCall' = ProxyCallReturns(createErrorResponse(502, "Failed to read request body"))
                 /\ pc' = "proxy_return"
                 /\ req' = req
            ELSE /\ proxyCall' = [proxyCall EXCEPT !.bodyBytes = Deref(req.Body)]
                 /\ req' = [req EXCEPT !.Body = Ptr(Deref(req.Body))]
                 /\ pc' = "exec_request"
                 /\ calls' = calls
    /\ UNCHANGED <<project, endpoint, responses, response, result, roundRobin>>

\* the header copy made with Set: the last value of each header only
CopyHeaders_SetsLast(header) ==
    LET copied == { n \in DOMAIN header : n # "Referer" /\ Len(header[n]) > 0 } IN
    [ k \in { CanonicalHeaderKey(n) : n \in copied } |->
        LET values == header[CHOOSE n \in copied : CanonicalHeaderKey(n) = k] IN
        <<values[Len(values)]>> ]

\* lines 239-245: every inbound header value added to the new request, but Referer
CopyHeaders(header) ==
    LET copied == { n \in DOMAIN header : n # "Referer" /\ Len(header[n]) > 0 } IN
    [ k \in { CanonicalHeaderKey(n) : n \in copied } |->
        header[CHOOSE n \in copied : CanonicalHeaderKey(n) = k] ]

\* the outgoing request without the loop header
NewRequest_NoLoopHeader(target, bodyBytes, header) ==
    [ URL |-> target, Host |-> target, Body |-> bodyBytes, Header |-> CopyHeaders(header) ]

\* lines 228-251: the outgoing request
NewRequest(target, bodyBytes, header) ==
    [ URL |-> target, Host |-> target, Body |-> bodyBytes,
      Header |-> HeaderSet(CopyHeaders(header), "beo-echo-loop-detect", "true") ]

\* lines 228-251: build the outgoing request, copy the headers, add the loop header
ExecNewRequest ==
    /\ pc = "exec_request"
    /\ \E buildFails \in BOOLEAN :
        IF buildFails
        THEN /\ calls' = Append(calls, Call("createErrorResponse", "Failed to create request", 0))
             /\ proxyCall' = ProxyCallReturns(createErrorResponse(502, "Failed to create request"))
             /\ pc' = "proxy_return"
        ELSE /\ proxyCall' = [proxyCall EXCEPT
                                !.newReq = Ptr(NewRequest(proxyCall.target, proxyCall.bodyBytes, req.Header))]
             /\ pc' = "exec_do"
             /\ calls' = calls
    /\ UNCHANGED <<req, project, endpoint, responses, response, result, roundRobin>>

\* fmt.Sprintf("%d", latencyMS)
FormatInt(n) ==
    CASE n = 0 -> "0" [] n = 1 -> "1" [] n = 2 -> "2" [] n = 3 -> "3" [] OTHER -> "4"

\* what the upstream server can answer
UpstreamResponses ==
    { HTTPResponse(200, EmptyHeader, UpstreamBody),
      HTTPResponse(502, [n \in {"Beo-Echo-Response-Type"} |-> <<"mock">>], UpstreamBody) }

\* the latency stamped on the transport-error envelope too
ExecDo_StampsErrors ==
    /\ pc = "exec_do"
    /\ calls' = Append(calls, Call("client.Do", proxyCall.target, 0))
    /\ \E latencyMS \in 0..MaxLatency :
        \E answer \in UpstreamResponses \cup {createErrorResponse(502, "Request error")} :
            proxyCall' = ProxyCallReturns(
                [answer EXCEPT !.Header = HeaderSet(@, "beo-echo-latency-ms", FormatInt(latencyMS))])
    /\ pc' = "proxy_return"
    /\ UNCHANGED <<req, project, endpoint, responses, response, result, roundRobin>>

\* lines 254-270: issue the request; 502 on a transport error, else stamp the latency
ExecDo ==
    /\ pc = "exec_do"
    /\ calls' = Append(calls, Call("client.Do", proxyCall.target, 0))
    /\ \/ proxyCall' = ProxyCallReturns(createErrorResponse(502, "Request error"))
       \/ \E upstream \in UpstreamResponses, latencyMS \in 0..MaxLatency :
            proxyCall' = ProxyCallReturns(
                [upstream EXCEPT !.Header = HeaderSet(@, "beo-echo-latency-ms", FormatInt(latencyMS))])
    /\ pc' = "proxy_return"
    /\ UNCHANGED <<req, project, endpoint, responses, response, result, roundRobin>>

(***************************************************************************)
(* The specification of one request.                                       *)
(***************************************************************************)
Next ==
    \/ HandleRequest
    \/ SwitchMode
    \/ MockFindEndpoint
    \/ MockUseProxy
    \/ MockReturnProxy
    \/ MockFindResponses
    \/ MockSelect
    \/ MockBuild
    \/ ProxyCheck
    \/ ProxyFindEndpoint
    \/ ProxyFindResponses
    \/ ProxySelect
    \/ ProxyBuild
    \/ ProxyForward
    \/ ProxyReturn
    \/ ForwarderCheck
    \/ ForwarderForward
    \/ ForwarderReturn
    \/ ExecLoopCheck
    \/ ExecParseURL
    \/ ExecReadBody
    \/ ExecNewRequest
    \/ ExecDo

Spec == Init /\ [][Next]_vars


(***************************************************************************)
(* Vocabulary of the properties.                                           *)
(***************************************************************************)
Done == pc = "done"

\* the values HandleRequest returned
Ret == Deref(result)

Made(op) == \E i \in 1..Len(calls) : calls[i].op = op

MadeWith(op, arg) == \E i \in 1..Len(calls) : calls[i].op = op /\ calls[i].arg = arg

\* respPtr is the 200 envelope {"message": message}
IsDefaultEnvelope(respPtr, message) ==
    /\ respPtr # Nil
    /\ Deref(respPtr).StatusCode = 200
    /\ Deref(respPtr).Body = [format |-> "json", error |-> FALSE, message |-> message]

\* respPtr is an envelope {"error": true, "message": ...} with the status
IsErrorEnvelope(respPtr, status) ==
    /\ respPtr # Nil
    /\ Deref(respPtr).StatusCode = status
    /\ Deref(respPtr).Body.format = "json"
    /\ Deref(respPtr).Body.error

\* respPtr was built from a stored mock response
IsMockResponse(respPtr) ==
    /\ respPtr # Nil
    /\ Deref(respPtr).Body.format \in {"identity", "gzip", "br"}

\* respPtr is what the upstream server answered
IsUpstreamResponse(respPtr) ==
    /\ respPtr # Nil
    /\ Deref(respPtr).Body.format = "upstream"

StampedWith(respPtr, name, value) ==
    /\ respPtr # Nil
    /\ name \in DOMAIN Deref(respPtr).Header
    /\ Deref(respPtr).Header[name] = <<value>>

\* the request carries a header whose name begins, in any letter case, with
\* beo-echo
CarriesBeoEchoHeader ==
    \E name \in DOMAIN req.Header :
        LET cs == Chars(name) IN
        /\ Len(cs) >= 8
        /\ \A i \in 1..8 : LowerChar(cs[i]) = <<"b","e","o","-","e","c","h","o">>[i]

NoLookup == ~Made("FindMatchingEndpoint") /\ ~Made("FindResponsesByEndpointID")

NoUpstreamCall == ~Made("client.Do")

ModeOf == Deref(project).Mode

\* the delay the project tier alone configures
ProjectTierDelay ==
    IF Deref(project).AdvanceConfig.raw = "json" THEN Deref(project).AdvanceConfig.delay_ms ELSE 0

\* the mock attempt of this request missed: no endpoint, no responses, no
\* selection, or a build error
MockMiss ==
    \/ MadeWith("FindMatchingEndpoint", "err")
    \/ MadeWith("FindResponsesByEndpointID", "err")
    \/ (Made("FindResponsesByEndpointID") /\ Len(responses) = 0)
    \/ MadeWith("selectResponseWithEndpoint", "nil")
    \/ MadeWith("createMockResponse", "err")

\* the project-tier applyDelay call was made, and every upstream call came after it
ProjectDelayThenForward ==
    \E i \in 1..Len(calls) :
        /\ calls[i] = Call("applyDelay", "project", ProjectTierDelay)
        /\ \A j \in 1..Len(calls) : calls[j].op = "client.Do" => j > i

\* every upstream call went to the target
UpstreamOnlyTo(target) ==
    \A j \in 1..Len(calls) : calls[j].op = "client.Do" => calls[j].arg = target

(***************************************************************************)
(* Properties of the dispatcher.                                           *)
(***************************************************************************)
\* C1: when FindProjectByAlias fails, HandleRequest returns the 200 envelope
\* {"message": project-not-found} with a nil error, empty projectID, empty
\* executionMode and matched=false, and makes no endpoint lookup, no response
\* lookup, no delay and no upstream call.
C1_AliasMissEnvelope ==
    (pc # "HandleRequest" /\ project = Nil) =>
        /\ Done
        /\ IsDefaultEnvelope(Ret.resp, DEFAULT_RESPONSE_PROJECT_NOT_FOUND)
        /\ ~Ret.err
        /\ Ret.projectID = ""
        /\ Ret.executionMode = ""
        /\ ~Ret.matched
        /\ NoLookup
        /\ ~Made("applyDelay")
        /\ NoUpstreamCall
        /\ proxyCall = NoCall

C1_Witness == Done /\ project = Nil /\ CarriesBeoEchoHeader

\* C2: for a resolved project whose mode is disabled the result is a 503
\* error envelope, and for a mode other than mock, proxy, forwarder and
\* disabled a 500 error envelope "Invalid project mode"; in both cases
\* matched=false, projectID is the project's id, and there is no endpoint
\* lookup, no delay and no upstream call, whatever else the project and the
\* request hold.
C2_DisabledAndInvalidMode ==
    (project # Nil /\ pc # "switch" /\ ModeOf \notin {ModeMock, ModeProxy, ModeForwarder}) =>
        /\ Done
        /\ IF ModeOf = ModeDisabled
           THEN IsErrorEnvelope(Ret.resp, 503)
           ELSE /\ IsErrorEnvelope(Ret.resp, 500)
                /\ Deref(Ret.resp).Body.message = "Invalid project mode"
        /\ ~Ret.err
        /\ ~Ret.matched
        /\ Ret.projectID = Deref(project).ID
        /\ NoLookup
        /\ ~Made("applyDelay")
        /\ NoUpstreamCall
        /\ proxyCall = NoCall

C2_Witness ==
    /\ Done /\ project # Nil
    /\ ModeOf = ModeUnknown
    /\ Deref(project).ActiveProxy # Nil
    /\ CarriesBeoEchoHeader

\* C3 (as claimed): in proxy mode, for every request without a beo-echo
\* header and every project, with or without an active proxy: unless the mock
\* attempt misses (no endpoint, no responses, no selection, build error),
\* HandleRequest returns the mock response stamped beo-echo-response-type:
\* mock with matched=true and makes no upstream call.
C3_ProxyModeMockFirst ==
    (Done /\ project # Nil /\ ModeOf = ModeProxy /\ ~CarriesBeoEchoHeader /\ ~MockMiss) =>
        /\ IsMockResponse(Ret.resp)
        /\ StampedWith(Ret.resp, "Beo-Echo-Response-Type", "mock")
        /\ Ret.matched
        /\ NoUpstreamCall

\* C4: in proxy mode, on any miss of the mock attempt the project-tier delay
\* is applied and the request is then forwarded to project.active_proxy.URL
\* with matched=false; with no active proxy configured the result is a 500
\* error envelope with matched=false.
C4_ProxyModeMissForwards ==
    (Done /\ project # Nil /\ ModeOf = ModeProxy) =>
        /\ Deref(project).ActiveProxy = Nil =>
                IsErrorEnvelope(Ret.resp, 500) /\ ~Ret.matched
        /\ MockMiss =>
                /\ ~Ret.matched
                /\ ProjectDelayThenForward
                /\ proxyCall.caller = "handleProxyMode"
                /\ proxyCall.target = Deref(Deref(project).ActiveProxy).URL
                /\ proxyCall.resp = Ret.resp \/ StampedWith(Ret.resp, "Beo-Echo-Response-Type", "proxy")
                /\ UpstreamOnlyTo(Deref(Deref(project).ActiveProxy).URL)

C4_Witness ==
    /\ Done /\ project # Nil /\ ModeOf = ModeProxy
    /\ MadeWith("createMockResponse", "err")
    /\ Made("client.Do")
    /\ ProjectTierDelay > 0

C4_WitnessNoProxy ==
    Done /\ project # Nil /\ ModeOf = ModeProxy /\ Deref(project).ActiveProxy = Nil

\* C5: in forwarder mode HandleRequest never looks an endpoint or responses
\* up; with an active proxy and no loop header it applies the project-tier
\* delay and forwards to project.active_proxy.URL; with no active proxy it
\* returns a 500 error envelope; matched is false on every path.
C5_ForwarderMode ==
    (project # Nil /\ ModeOf = ModeForwarder) =>
        /\ NoLookup
        /\ ~Made("selectResponseWithEndpoint")
        /\ Done =>
            /\ ~Ret.matched
            /\ Deref(project).ActiveProxy = Nil => IsErrorEnvelope(Ret.resp, 500)
            /\ (Deref(project).ActiveProxy # Nil /\ ~CarriesBeoEchoHeader) =>
                    /\ ProjectDelayThenForward
                    /\ proxyCall.caller = "handleForwarderMode"
                    /\ proxyCall.target = Deref(Deref(project).ActiveProxy).URL
                    /\ Ret.resp = proxyCall.resp
                    /\ UpstreamOnlyTo(Deref(Deref(project).ActiveProxy).URL)

C5_Witness ==
    /\ Done /\ project # Nil /\ ModeOf = ModeForwarder
    /\ IsUpstreamResponse(Ret.resp)
    /\ ProjectTierDelay > 0


\* the request reaches a path that checks for a loop: proxy or forwarder
\* mode with an active proxy, or a mock-mode endpoint that forwards to its
\* own proxy target
OnLoopCheckedPath ==
    /\ project # Nil
    /\ \/ ModeOf \in {ModeProxy, ModeForwarder} /\ Deref(project).ActiveProxy # Nil
       \/ /\ ModeOf = ModeMock
          /\ endpoint # Nil
          /\ Deref(endpoint).UseProxy
          /\ Deref(endpoint).ProxyTarget # Nil

\* C6 (as claimed): every request that carries a header whose name begins,
\* in any letter case, with beo-echo is answered 508, for every project mode
\* and configuration.
C6_LoopDetectionTotal ==
    (Done /\ CarriesBeoEchoHeader) => IsErrorEnvelope(Ret.resp, 508)

\* C6 (amended): a request that carries a beo-echo header is answered 508
\* whenever it reaches a path that forwards: proxy or forwarder mode with an
\* active proxy configured, or a mock-mode endpoint with use_proxy and a
\* proxy target.
C6_LoopDetectionOnForwardingPaths ==
    (Done /\ CarriesBeoEchoHeader /\ OnLoopCheckedPath) =>
        /\ IsErrorEnvelope(Ret.resp, 508)
        /\ ~Ret.err

C6_Witness ==
    /\ Done /\ CarriesBeoEchoHeader
    /\ project # Nil /\ ModeOf = ModeMock
    /\ OnLoopCheckedPath
    /\ IsErrorEnvelope(Ret.resp, 508)

\* C7: no upstream call is ever issued for a request that carries a header
\* whose name begins, in any letter case, with beo-echo, on any path that
\* reaches the forwarder: the forwarder checks the headers itself before it
\* builds the outgoing request.
C7_NoUpstreamCallOnLoop ==
    CarriesBeoEchoHeader =>
        /\ NoUpstreamCall
        /\ proxyCall.newReq = Nil
        /\ pc \notin {"exec_parse", "exec_body", "exec_request", "exec_do"}

C7_Witness ==
    /\ CarriesBeoEchoHeader
    /\ pc = "proxy_return"
    /\ proxyCall.caller = "handleMockMode"
    /\ IsErrorEnvelope(proxyCall.resp, 508)

\* C8 (as claimed): matched is true if and only if the response returned was
\* supplied by a stored mock response of an endpoint; it is false for
\* default envelopes, error envelopes and responses forwarded upstream.
C8_MatchedIffMockSupplied ==
    Done => (Ret.matched <=> IsMockResponse(Ret.resp))

\* C8 (amended): in mock mode matched is true exactly when the endpoint
\* lookup succeeded and the selector did not come back empty (so also for a
\* request forwarded to the endpoint's own proxy target, for the "no response
\* configured" envelope of an endpoint without responses, and for a response
\* that failed to build); in proxy mode it is true exactly when the stored
\* mock response is returned; on every other outcome it is false.
C8_MatchedByBranch ==
    Done =>
        (Ret.matched <=>
            /\ project # Nil
            /\ \/ /\ ModeOf = ModeMock
                  /\ endpoint # Nil
                  /\ ~MadeWith("selectResponseWithEndpoint", "nil")
               \/ /\ ModeOf = ModeProxy
                  /\ IsMockResponse(Ret.resp))

C8_Witness ==
    /\ Done /\ Ret.matched
    /\ IsDefaultEnvelope(Ret.resp, DEFAULT_RESPONSE_NO_RESPONSE_CONFIGURED)

C8_WitnessForwarded ==
    Done /\ Ret.matched /\ IsUpstreamResponse(Ret.resp)

\* C9 (as claimed): executionMode is always one of mock, proxy, forwarder or
\* empty, and it is empty exactly when the alias did not resolve.
C9_ExecutionModeOfFour ==
    Done =>
        /\ Ret.executionMode \in {ModeMock, ModeProxy, ModeForwarder, ""}
        /\ Ret.executionMode = "" <=> project = Nil

\* C9 (amended): executionMode is empty when the alias did not resolve; in
\* mock mode it is proxy when the request went to the endpoint's own proxy
\* target and mock otherwise; for every other project it is project.mode
\* itself, also when that is disabled or a mode the switch does not know.
C9_ExecutionModeByBranch ==
    Done =>
        Ret.executionMode =
            IF project = Nil THEN ""
            ELSE IF ModeOf = ModeMock
                 THEN (IF endpoint # Nil /\ Deref(endpoint).UseProxy /\ Deref(endpoint).ProxyTarget # Nil
                       THEN ModeProxy ELSE ModeMock)
                 ELSE ModeOf

C9_Witness ==
    /\ Done /\ project # Nil
    /\ ModeOf = ModeMock
    /\ Ret.executionMode = ModeProxy

C9_WitnessDisabled ==
    Done /\ project # Nil /\ Ret.executionMode = ModeDisabled

\* C10: in mock mode, when FindMatchingEndpoint fails, the project-tier delay
\* is applied and then the 200 "endpoint not found" envelope is returned with
\* executionMode=mock and matched=false; responses are never loaded and no
\* upstream call is made.
C10_MockEndpointMiss ==
    (project # Nil /\ ModeOf = ModeMock /\ MadeWith("FindMatchingEndpoint", "err")) =>
        /\ Done
        /\ calls = << Call("FindProjectByAlias", "ok", 0),
                      Call("FindMatchingEndpoint", "err", 0),
                      Call("applyDelay", "project", ProjectTierDelay),
                      Call("createDefaultJSONResponse", DEFAULT_RESPONSE_ENDPOINT_NOT_FOUND, 0) >>
        /\ IsDefaultEnvelope(Ret.resp, DEFAULT_RESPONSE_ENDPOINT_NOT_FOUND)
        /\ ~Ret.err
        /\ Ret.executionMode = ModeMock
        /\ ~Ret.matched
        /\ Ret.projectID = Deref(project).ID
        /\ proxyCall = NoCall

C10_Witness ==
    /\ Done /\ project # Nil /\ ModeOf = ModeMock
    /\ MadeWith("FindMatchingEndpoint", "err")
    /\ ProjectTierDelay > 0

\* the endpoint found is configured for proxying and has a proxy target
EndpointProxies ==
    /\ endpoint # Nil
    /\ Deref(endpoint).UseProxy
    /\ Deref(endpoint).ProxyTarget # Nil

\* the delay the endpoint tier alone configures
EndpointTierDelay ==
    IF Deref(endpoint).AdvanceConfig.raw = "json" THEN Deref(endpoint).AdvanceConfig.delay_ms ELSE 0

\* the delay of the endpoint tier, else of the project tier
EndpointOrProjectDelay ==
    IF EndpointTierDelay > 0 THEN EndpointTierDelay ELSE ProjectTierDelay

\* executeProxyRequest gave up before the upstream call
ForwardingGaveUp ==
    \/ MadeWith("createErrorResponse", "Proxy loop detected")
    \/ MadeWith("createErrorResponse", "Invalid proxy URL")
    \/ MadeWith("createErrorResponse", "Failed to read request body")
    \/ MadeWith("createErrorResponse", "Failed to create request")

\* C11: in mock mode, when the endpoint found has use_proxy=true and a proxy
\* target, the request goes to executeProxyRequest with the endpoint's own
\* target (every upstream call is to that target, none to the project's
\* active proxy, and one is made unless the forwarder gives up first), after
\* the single applyDelay(project, endpoint, nil) call; the endpoint's stored
\* responses are neither loaded nor selected nor built, and the outcome is
\* reported with executionMode=proxy and matched=true.
C11_MockEndpointProxy ==
    (Done /\ project # Nil /\ ModeOf = ModeMock /\ EndpointProxies) =>
        /\ UpstreamOnlyTo(Deref(Deref(endpoint).ProxyTarget).URL)
        /\ (~CarriesBeoEchoHeader /\ ~ForwardingGaveUp) =>
                MadeWith("client.Do", Deref(Deref(endpoint).ProxyTarget).URL)
        /\ \E i \in 1..Len(calls) :
               /\ calls[i] = Call("applyDelay", "project,endpoint", EndpointOrProjectDelay)
               /\ \A j \in 1..Len(calls) :
                     /\ calls[j].op = "applyDelay" => j = i
                     /\ calls[j].op = "client.Do" => j > i
        /\ ~Made("FindResponsesByEndpointID")
        /\ ~Made("selectResponseWithEndpoint")
        /\ ~Made("createMockResponse")
        /\ Ret.projectID = Deref(project).ID
        /\ Ret.executionMode = ModeProxy
        /\ Ret.matched = TRUE

\* a mock-mode request forwarded to the endpoint's target, after a positive
\* delay, for a project that has an active proxy of its own
C11_Witness ==
    /\ Done /\ project # Nil /\ ModeOf = ModeMock /\ EndpointProxies
    /\ Deref(project).ActiveProxy = Ptr(ProxyTarget(ProjectProxyURL))
    /\ MadeWith("client.Do", EndpointProxyURL)
    /\ IsUpstreamResponse(Ret.resp)
    /\ EndpointOrProjectDelay > 0
    /\ Ret.executionMode = ModeProxy /\ Ret.matched

\* the mock-mode endpoint found, which does not proxy, produced no mock
\* response: the lookup of its responses failed or was empty
NoResponsesStored ==
    \/ MadeWith("FindResponsesByEndpointID", "err")
    \/ (MadeWith("FindResponsesByEndpointID", "ok") /\ Len(responses) = 0)

\* responses exist but the selector returned none
NoneSelected ==
    /\ MadeWith("FindResponsesByEndpointID", "ok")
    /\ Len(responses) > 0
    /\ MadeWith("selectResponseWithEndpoint", "nil")

\* C12: in mock mode, when the endpoint found produces no mock response, the
\* 200 "no response configured" envelope is returned with a nil error and
\* executionMode=mock: with matched=true when the endpoint has no responses
\* or the lookup of its responses fails, with matched=false when responses
\* exist but the selector returns none.
C12_NoResponseConfigured ==
    (Done /\ project # Nil /\ ModeOf = ModeMock /\ endpoint # Nil /\ ~EndpointProxies) =>
        /\ NoResponsesStored =>
              /\ IsDefaultEnvelope(Ret.resp, DEFAULT_RESPONSE_NO_RESPONSE_CONFIGURED)
              /\ Ret.err = FALSE
              /\ Ret.executionMode = ModeMock
              /\ Ret.matched = TRUE
        /\ NoneSelected =>
              /\ IsDefaultEnvelope(Ret.resp, DEFAULT_RESPONSE_NO_RESPONSE_CONFIGURED)
              /\ Ret.err = FALSE
              /\ Ret.executionMode = ModeMock
              /\ Ret.matched = FALSE
        /\ IsDefaultEnvelope(Ret.resp, DEFAULT_RESPONSE_NO_RESPONSE_CONFIGURED) =>
              (NoResponsesStored \/ NoneSelected)

\* responses exist, none is selected, and the envelope is reported unmatched
C12_Witness ==
    /\ Done /\ project # Nil /\ ModeOf = ModeMock /\ endpoint # Nil
    /\ NoneSelected
    /\ IsDefaultEnvelope(Ret.resp, DEFAULT_RESPONSE_NO_RESPONSE_CONFIGURED)
    /\ Ret.matched = FALSE

\* the endpoint has no responses, and the envelope is reported matched
C12_WitnessEmpty ==
    /\ Done /\ project # Nil /\ ModeOf = ModeMock /\ endpoint # Nil
    /\ MadeWith("FindResponsesByEndpointID", "ok") /\ Len(responses) = 0
    /\ IsDefaultEnvelope(Ret.resp, DEFAULT_RESPONSE_NO_RESPONSE_CONFIGURED)
    /\ Ret.matched = TRUE

\* the call brought a response into being: a mock response built, an
\* envelope created, or the upstream request issued
ProducesResponse(c) ==
    \/ c.op = "createMockResponse" /\ c.arg = "ok"
    \/ c.op = "createDefaultJSONResponse"
    \/ c.op = "createErrorResponse"
    \/ c.op = "client.Do"

\* C20: within one request every applyDelay call comes before the mock
\* response is built, before an envelope is created and before the upstream
\* request is issued: no applyDelay call follows a call that produced a
\* response.
C20_DelaysBeforeResponse ==
    \A i, j \in 1..Len(calls) :
        (i < j /\ calls[j].op = "applyDelay") => ~ProducesResponse(calls[i])

\* a mock response was built after a positive delay and returned
C20_Witness ==
    /\ Done
    /\ \E i, j \in 1..Len(calls) :
          /\ i < j
          /\ calls[i].op = "applyDelay" /\ calls[i].ms > 0
          /\ calls[j] = Call("createMockResponse", "ok", 0)
    /\ IsMockResponse(Ret.resp)

\* proxy mode after a failed build: both delays came before the upstream call
C20_WitnessTwoDelays ==
    /\ Done
    /\ \E i, j, k \in 1..Len(calls) :
          /\ i < j /\ j < k
          /\ calls[i].op = "applyDelay"
          /\ calls[j].op = "applyDelay"
          /\ calls[k].op = "client.Do"


(***************************************************************************)
(* Properties of the forwarder.                                            *)
(***************************************************************************)
\* the outgoing request carries header name with exactly the values, in order
OutgoingCarries(name, values) ==
    /\ name \in DOMAIN Deref(proxyCall.newReq).Header
    /\ Deref(proxyCall.newReq).Header[name] = values

\* C25: the outgoing request carries every inbound header with all of its
\* values in their original order, except Referer, which is never forwarded;
\* building it leaves the inbound request's headers unchanged.
C25_HeadersCopied ==
    [][ /\ req'.Header = req.Header
        /\ proxyCall'.newReq # Nil =>
            /\ \A name \in DOMAIN req.Header \ {"Referer"} :
                    OutgoingCarries(name, req.Header[name])'
            /\ "Referer" \notin DOMAIN Deref(proxyCall'.newReq).Header ]_vars

C25_Witness ==
    /\ proxyCall.newReq # Nil
    /\ "Referer" \in DOMAIN req.Header
    /\ OutgoingCarries("Accept", <<"prod", "dev">>)
    /\ OutgoingCarries("Beo", <<"true">>)

\* C27: the forwarder never returns an error: an unparseable target URL
\* gives a 500 envelope, a body-read failure, a request-build failure and a
\* transport failure a 502 envelope, and the first three make no upstream
\* call.
C27_ForwarderNeverErrs ==
    [][ (pc' = "proxy_return" /\ pc # "proxy_return") =>
            /\ ~proxyCall'.err
            /\ proxyCall'.resp # Nil
            /\ pc = "exec_parse"   => IsErrorEnvelope(proxyCall'.resp, 500) /\ NoUpstreamCall'
            /\ pc = "exec_body"    => IsErrorEnvelope(proxyCall'.resp, 502) /\ NoUpstreamCall'
            /\ pc = "exec_request" => IsErrorEnvelope(proxyCall'.resp, 502) /\ NoUpstreamCall'
            /\ (pc = "exec_do" /\ ~IsUpstreamResponse(proxyCall'.resp)) =>
                    IsErrorEnvelope(proxyCall'.resp, 502) ]_vars

\* the forwarder returned the envelope with the message and no upstream call was made
FailedLocally(status, message) ==
    /\ pc = "proxy_return"
    /\ IsErrorEnvelope(proxyCall.resp, status)
    /\ Deref(proxyCall.resp).Body.message = message
    /\ ~proxyCall.err
    /\ NoUpstreamCall

C27_Witness == FailedLocally(502, "Failed to read request body")

C27_WitnessURL == FailedLocally(500, "Invalid proxy URL")

C27_WitnessBuild == FailedLocally(502, "Failed to create request")

C27_WitnessTransport ==
    /\ pc = "proxy_return"
    /\ IsErrorEnvelope(proxyCall.resp, 502)
    /\ Deref(proxyCall.resp).Body.message = "Request error"
    /\ Made("client.Do")

\* C28 (as claimed): in proxy mode a returned response carries
\* beo-echo-response-type: proxy exactly when it is a successfully forwarded
\* response, one an upstream call completed with, and carries
\* beo-echo-response-type: mock exactly when it was served by a mock.
C28_ProxyStampOnlyForwarded ==
    (Done /\ project # Nil /\ ModeOf = ModeProxy /\ Ret.resp # Nil) =>
        /\ StampedWith(Ret.resp, "Beo-Echo-Response-Type", "proxy") <=> IsUpstreamResponse(Ret.resp)
        /\ StampedWith(Ret.resp, "Beo-Echo-Response-Type", "mock") <=> IsMockResponse(Ret.resp)

\* the state C28 fails in: a local error envelope stamped as proxied
C28_StampedEnvelope ==
    /\ Done /\ project # Nil /\ ModeOf = ModeProxy
    /\ IsErrorEnvelope(Ret.resp, 500)
    /\ StampedWith(Ret.resp, "Beo-Echo-Response-Type", "proxy")
    /\ NoUpstreamCall

\* the response carries the latency header, with one value
LatencyStamped(respPtr) ==
    /\ "Beo-Echo-Latency-Ms" \in DOMAIN Deref(respPtr).Header
    /\ Len(Deref(respPtr).Header["Beo-Echo-Latency-Ms"]) = 1

\* C29: a response carries beo-echo-latency-ms exactly when an upstream call
\* completed with it: never a mock response, a default envelope or a local
\* error envelope; the stamp is there when the forwarder returns, after the
\* transport call.
C29_LatencyIffUpstream ==
    /\ proxyCall.resp # Nil =>
        /\ LatencyStamped(proxyCall.resp) <=> IsUpstreamResponse(proxyCall.resp)
        /\ LatencyStamped(proxyCall.resp) => Made("client.Do")
    /\ (Done /\ Ret.resp # Nil) =>
        /\ LatencyStamped(Ret.resp) <=> IsUpstreamResponse(Ret.resp)
        /\ LatencyStamped(Ret.resp) => Made("client.Do")

C29_Witness ==
    /\ Done /\ IsUpstreamResponse(Ret.resp)
    /\ StampedWith(Ret.resp, "Beo-Echo-Latency-Ms", "1")

C29_WitnessTransportError ==
    /\ Done /\ Made("client.Do")
    /\ IsErrorEnvelope(Ret.resp, 502)
    /\ ~LatencyStamped(Ret.resp)


(***************************************************************************)
(* Properties of the handler as a whole.                                   *)
(***************************************************************************)
\* the response is one an HTTP caller can send: a status code and a body
WellFormed(respPtr) ==
    /\ respPtr # Nil
    /\ Deref(respPtr).StatusCode \in 100..599
    /\ Deref(respPtr).Body.format \in {"json", "identity", "gzip", "br", "upstream"}

\* C31 (as claimed): for every request and every failure mode HandleRequest
\* returns a non-nil, well-formed response with a status code, and never an
\* error or a nil response.
C31_AlwaysAnEnvelope ==
    Done => (WellFormed(Ret.resp) /\ ~Ret.err)

\* C31 (amended): HandleRequest returns a non-nil, well-formed response and
\* a nil error for every request and every failure mode but one: in mock
\* mode, when building the selected response fails, it returns a nil
\* response together with the error.
C31_EnvelopeUnlessMockBuildFails ==
    Done =>
        IF project # Nil /\ ModeOf = ModeMock /\ MadeWith("createMockResponse", "err")
        THEN Ret.resp = Nil /\ Ret.err
        ELSE WellFormed(Ret.resp) /\ ~Ret.err

\* an upstream failure answered with an envelope and a nil error
C31_Witness ==
    /\ Done /\ Made("client.Do")
    /\ IsErrorEnvelope(Ret.resp, 502)
    /\ ~Ret.err

\* the build failure in mock mode
C31_WitnessMockBuild ==
    /\ Done /\ project # Nil /\ ModeOf = ModeMock
    /\ MadeWith("createMockResponse", "err")
    /\ Ret.resp = Nil /\ Ret.err

\* the build failure in proxy mode, answered by the upstream
C31_WitnessProxyBuild ==
    /\ Done /\ project # Nil /\ ModeOf = ModeProxy
    /\ MadeWith("createMockResponse", "err")
    /\ WellFormed(Ret.resp) /\ ~Ret.err

\* C33: in proxy mode the endpoint's use_proxy flag and proxy target play no
\* part: every upstream call goes to project.active_proxy.URL, and an
\* endpoint with use_proxy=true whose stored response was selected and built
\* is answered from that response, matched, with no upstream call.
C33_ProxyModeIgnoresUseProxy ==
    (Done /\ project # Nil /\ ModeOf = ModeProxy) =>
        /\ Made("client.Do") =>
                /\ Deref(project).ActiveProxy # Nil
                /\ UpstreamOnlyTo(Deref(Deref(project).ActiveProxy).URL)
        /\ proxyCall # NoCall => proxyCall.target = Deref(Deref(project).ActiveProxy).URL
        /\ (EndpointProxies /\ response # Nil) => Made("createMockResponse")
        /\ (EndpointProxies /\ MadeWith("createMockResponse", "ok")) =>
                /\ IsMockResponse(Ret.resp)
                /\ Ret.matched
                /\ NoUpstreamCall

C33_Witness ==
    /\ Done /\ project # Nil /\ ModeOf = ModeProxy
    /\ EndpointProxies
    /\ IsMockResponse(Ret.resp) /\ Ret.matched
    /\ NoUpstreamCall

C33_WitnessForward ==
    /\ Done /\ project # Nil /\ ModeOf = ModeProxy
    /\ EndpointProxies
    /\ MadeWith("client.Do", ProjectProxyURL)

\* the applyDelay calls made for the request
DelayCalls == Cardinality({ i \in 1..Len(calls) : calls[i].op = "applyDelay" })

\* proxy mode selected a response and failed to build it
ProxyBuildFailed ==
    project # Nil /\ ModeOf = ModeProxy /\ MadeWith("createMockResponse", "err")

\* C34 (as claimed): HandleRequest calls applyDelay at most once per request
\* on every path through every mode.
C34_OneDelayPerRequest == DelayCalls <= 1

\* C34 (amended): HandleRequest calls applyDelay at most once per request on
\* every path but one: in proxy mode, when building the selected response
\* fails, applyDelay is called a second time, with the project tier alone,
\* before forwarding; it is never called more than twice.
C34_OneDelayUnlessProxyBuildFails ==
    /\ DelayCalls <= 2
    /\ DelayCalls = 2 =>
        /\ ProxyBuildFailed
        /\ \E i, j \in 1..Len(calls) :
              /\ i < j
              /\ calls[i].op = "applyDelay" /\ calls[i].arg = "project,endpoint,response"
              /\ calls[j].op = "applyDelay" /\ calls[j].arg = "project"
    /\ (Done /\ ProxyBuildFailed) => DelayCalls = 2

\* both tiers slept: the response tier, then the project tier
C34_Witness ==
    /\ Done /\ ProxyBuildFailed
    /\ DelayCalls = 2
    /\ \A i \in 1..Len(calls) : calls[i].op = "applyDelay" => calls[i].ms > 0


(***************************************************************************)
(* The specification of the response selector: one call of                 *)
(* selectResponseWithEndpoint on inputs drawn from bounded sets.  Of the   *)
(* variables it uses req (the request), endpoint (whose ID and             *)
(* ResponseMode are the arguments), responses (the list), roundRobin (the  *)
(* registry) and response (what the call returned); pc is "select" before  *)
(* the call and "selected" after it.                                       *)
(***************************************************************************)
\* the responses the selector is given: those of the dispatch specification,
\* a fallback that ties with r4 and a rule-less response that ties with r2, r3
SelectorPool ==
    ResponsePool \cup
    { MockResponse("r5", 3, 0, TRUE, <<Rule("header", "x-env", "equals", "dev")>>,
                   StoredHeaders(TRUE, NoHeaders), 200, "hello"),
      MockResponse("r6", 2, 0, FALSE, << >>,
                   StoredHeaders(TRUE, NoHeaders), 200, "hello") }

SelectorLists == { q \in SeqsOver(SelectorPool, MaxSelectorLen) : Distinct(q) }

\* the mode strings: the three modes in both letter cases and an unknown one
SelectorModes == ResponseModes \cup {"static", "round_robin"}

SelectorEndpoints ==
    [ ID : {"e1"}, UseProxy : {FALSE}, ProxyTarget : {Nil},
      ResponseMode : SelectorModes, AdvanceConfig : {ConfigEmpty} ]

\* the registry before the call: empty, or holding counters already
SelectorRegistries ==
    { [id \in {} |-> 0] } \cup
    { [id \in {"e1", "e2"} |-> IF id = "e1" THEN c ELSE 1] : c \in 0..MaxSelectorLen }

SelectorInit ==
    /\ pc = "select"
    /\ req \in Requests
    /\ endpoint \in { Ptr(e) : e \in SelectorEndpoints }
    /\ responses \in SelectorLists
    /\ roundRobin \in SelectorRegistries
    /\ response = Nil
    /\ project = Nil
    /\ proxyCall = NoCall
    /\ result = Nil
    /\ calls = << >>

\* the call selectResponseWithEndpoint(endpoint.ID, responses, endpoint.ResponseMode, req)
Select ==
    /\ pc = "select"
    /\ \E sel \in selectResponseWithEndpoint(roundRobin, Deref(endpoint).ID, responses,
                                             Deref(endpoint).ResponseMode, req) :
        /\ response' = sel.response
        /\ roundRobin' = sel.registry
        /\ calls' = Append(calls, Call("selectResponseWithEndpoint",
                                       IF sel.response = Nil THEN "nil" ELSE Deref(sel.response).ID,
                                       0))
    /\ pc' = "selected"
    /\ UNCHANGED <<req, project, endpoint, responses, proxyCall, result>>

SelectorNext == Select

SelectorSpec == SelectorInit /\ [][SelectorNext]_vars

(***************************************************************************)
(* Properties of the selector.                                             *)
(***************************************************************************)
Selected == pc = "selected"

\* every rule of the i-th response matches the request
Valid(i) == matchesRules(responses[i], req)

SomeValid == \E i \in 1..Len(responses) : Valid(i)

\* the mode argument is static, random or round_robin in some letter case
ModeIsStatic == Deref(endpoint).ResponseMode \in {"static", "Static"}
ModeIsRoundRobin == Deref(endpoint).ResponseMode \in {"round_robin", "ROUND_ROBIN"}

\* the response returned is the i-th of the list
ReturnedIs(i) == response # Nil /\ Deref(response) = responses[i]

\* C13: for every mode string, whenever at least one response has all its
\* rules matching the request, the selector returns a response of the list
\* whose rules all match the request.
C13_SelectsValid ==
    (Selected /\ SomeValid) =>
        \E i \in 1..Len(responses) : Valid(i) /\ ReturnedIs(i)

\* under an unknown mode, with a matching rule-bearing response beside a
\* response whose rule fails, a matching one is returned
C13_Witness ==
    /\ Selected
    /\ Deref(endpoint).ResponseMode = "weighted"
    /\ \E i, j \in 1..Len(responses) :
          /\ Valid(i) /\ Len(responses[i].Rules) > 0 /\ ReturnedIs(i)
          /\ ~Valid(j)

\* C14: in static mode the response selected is valid, no valid response
\* has a higher priority, and no valid response of the same priority comes
\* before it in the list.
C14_StaticHighestFirst ==
    (Selected /\ ModeIsStatic /\ SomeValid) =>
        \E i \in 1..Len(responses) :
            /\ Valid(i) /\ ReturnedIs(i)
            /\ \A j \in 1..Len(responses) :
                  Valid(j) => /\ responses[j].Priority <= responses[i].Priority
                              /\ responses[j].Priority = responses[i].Priority => i <= j

\* static mode over three valid responses: the one returned ties with a
\* later one and follows one of lower priority
C14_Witness ==
    /\ Selected /\ ModeIsStatic /\ Len(responses) = 3
    /\ \A i \in 1..3 : Valid(i)
    /\ ReturnedIs(2)
    /\ responses[3].Priority = responses[2].Priority
    /\ responses[1].Priority < responses[2].Priority

\* C15: when the response returned is flagged is_fallback and its rules do
\* not match the request, no response that has rules matches the request,
\* and the response returned is the last response of the list flagged
\* is_fallback, whatever the priorities and the mode.
C15_FallbackLastWins ==
    (Selected /\ response # Nil /\ Deref(response).IsFallback
              /\ ~matchesRules(Deref(response), req)) =>
        /\ \A j \in 1..Len(responses) : Len(responses[j].Rules) > 0 => ~Valid(j)
        /\ \E i \in 1..Len(responses) :
              /\ ReturnedIs(i)
              /\ \A j \in 1..Len(responses) : responses[j].IsFallback => j <= i

\* two fallbacks whose rules fail: the later one is returned though the
\* earlier one has the higher priority
C15_Witness ==
    /\ Selected /\ response # Nil
    /\ \E i, j \in 1..Len(responses) :
          /\ i < j
          /\ responses[i].IsFallback /\ responses[j].IsFallback
          /\ ~Valid(i) /\ ~Valid(j)
          /\ responses[i].Priority > responses[j].Priority
          /\ ReturnedIs(j)

\* C16: the selector returns nothing exactly when no response has all its
\* rules matching the request and no response is flagged is_fallback;
\* otherwise it returns one response, and that response is of the list.
C16_NothingIffNoCandidate ==
    Selected =>
        /\ response = Nil <=>
              (~SomeValid /\ \A j \in 1..Len(responses) : ~responses[j].IsFallback)
        /\ response # Nil => \E i \in 1..Len(responses) : ReturnedIs(i)

\* a non-empty list without a valid response or a fallback: nothing is returned
C16_Witness ==
    /\ Selected /\ Len(responses) > 0 /\ response = Nil
    /\ ~SomeValid

\* no valid response, but a fallback: one response is returned
C16_WitnessFallback ==
    /\ Selected /\ ~SomeValid /\ response # Nil
    /\ \E i \in 1..Len(responses) : ReturnedIs(i)


\* C35: when the rule filter returns nothing for a request, no response of
\* the list is without rules; so the fallback scan adds nothing to the valid
\* set, and the selector returns nothing, or, when some response is flagged
\* is_fallback, the response the scan remembered, which has rules.
C35_EmptyFilterMeansNoRuleless ==
    (Selected /\ filterResponsesByRules(responses, req) = << >>) =>
        /\ \A i \in 1..Len(responses) : Len(responses[i].Rules) > 0
        /\ response = Nil <=> (\A i \in 1..Len(responses) : ~responses[i].IsFallback)
        /\ response # Nil =>
              /\ \E i \in 1..Len(responses) : ReturnedIs(i)
              /\ Len(Deref(response).Rules) > 0
              /\ ~matchesRules(Deref(response), req)

C35_Witness ==
    /\ Selected /\ Len(responses) = 3
    /\ filterResponsesByRules(responses, req) = << >>
    /\ response # Nil /\ Deref(response).IsFallback

C35_WitnessNothing ==
    /\ Selected /\ Len(responses) = 2
    /\ filterResponsesByRules(responses, req) = << >>
    /\ response = Nil


(***************************************************************************)
(* The specification of round-robin selection under parallel request       *)
(* handlers.  The registry is process-wide and starts empty; every handler *)
(* runs selectResponseWithEndpoint for the endpoint its request hit.  Here *)
(* the variables hold one value per handler or per endpoint: pc and        *)
(* response map each handler to its position and to what its last call     *)
(* returned, endpoint maps each handler to the endpoint of its call,       *)
(* responses maps each endpoint ID to its stored responses, and calls logs *)
(* the calls entered and returned, in order.  Filtering and sorting work   *)
(* on the handler's own copies (lines 278-303); the registry is touched    *)
(* only by getNextRoundRobinResponse (line 315), which reads and advances  *)
(* the counter in one step.                                                *)
(***************************************************************************)
Handlers == {"h1", "h2"}

RoundRobinEndpointIDs == {"e1", "e2"}

RoundRobinEndpoint(id) ==
    [ ID |-> id, UseProxy |-> FALSE, ProxyTarget |-> Nil,
      ResponseMode |-> IF id = "e1" THEN "ROUND_ROBIN" ELSE "round_robin",
      AdvanceConfig |-> ConfigEmpty ]

\* the response of the selector's pool with the ID
PoolResponse(id) == CHOOSE r \in SelectorPool : r.ID = id

\* the stored responses of the endpoint e1: lists the sort reorders, with a
\* tie, of one response, and of rule-bearing responses only
RoundRobinLists ==
    { <<PoolResponse("r1"), PoolResponse("r4"), PoolResponse("r6")>>,
      <<PoolResponse("r2"), PoolResponse("r6"), PoolResponse("r1")>>,
      <<PoolResponse("r6")>>,
      <<PoolResponse("r2"), PoolResponse("r4")>> }

RoundRobinInit ==
    /\ pc = [h \in Handlers |-> "idle"]
    /\ req \in Requests
    /\ endpoint = [h \in Handlers |-> Nil]
    /\ \E q \in RoundRobinLists :
          responses = [id \in RoundRobinEndpointIDs |->
                         IF id = "e1" THEN q ELSE SelectSeq(q, LAMBDA r : Len(r.Rules) = 0)]
    /\ response = [h \in Handlers |-> Nil]
    /\ roundRobin = [id \in {} |-> 0]
    /\ calls = << >>
    /\ project = Nil
    /\ proxyCall = NoCall
    /\ result = Nil

\* the selections entered so far
Entered == { n \in 1..Len(calls) : calls[n].op = "selectResponseWithEndpoint" }

\* lines 276-303: handler h enters the selector for the endpoint of its
\* request; it filters and sorts its own copy of the responses
EnterSelect(h) ==
    /\ pc[h] = "idle"
    /\ Cardinality(Entered) < MaxSelections
    /\ \E id \in RoundRobinEndpointIDs :
        /\ endpoint' = [endpoint EXCEPT ![h] = Ptr(RoundRobinEndpoint(id))]
        /\ calls' = Append(calls, [op |-> "selectResponseWithEndpoint", arg |-> id, ms |-> 0,
                                    handler |-> h])
    /\ pc' = [pc EXCEPT ![h] = "sorted"]
    /\ response' = [response EXCEPT ![h] = Nil]
    /\ UNCHANGED <<req, project, responses, proxyCall, result, roundRobin>>

\* lines 305-320: handler h takes the branch of the mode; round_robin reads
\* and advances the counter of the endpoint and the call returns
ReturnSelect(h) ==
    /\ pc[h] = "sorted"
    /\ LET e == Deref(endpoint[h]) IN
       \E sel \in selectResponseWithEndpoint(roundRobin, e.ID, responses[e.ID],
                                              e.ResponseMode, req) :
        /\ response' = [response EXCEPT ![h] = sel.response]
        /\ roundRobin' = sel.registry
        /\ calls' = Append(calls, [op |-> "return", arg |-> e.ID, ms |-> 0, handler |-> h,
                                    counter |-> CounterOf(roundRobin, e.ID),
                                    response |-> sel.response])
    /\ pc' = [pc EXCEPT ![h] = "idle"]
    /\ UNCHANGED <<req, project, endpoint, responses, proxyCall, result>>

RoundRobinNext ==
    \E h \in Handlers :
        \/ EnterSelect(h)
        \/ ReturnSelect(h)

RoundRobinSpec == RoundRobinInit /\ [][RoundRobinNext]_vars

(***************************************************************************)
(* Properties of round-robin selection.                                    *)
(***************************************************************************)
\* the positions in the list of endpoint id of the responses whose rules
\* all match the request
ValidOf(id) ==
    { i \in 1..Len(responses[id]) : matchesRules(responses[id][i], req) }

\* the index (from 0) of the i-th response of endpoint id among its valid
\* responses in priority order, list order breaking ties
RankOf(id, i) ==
    Cardinality({ j \in ValidOf(id) :
                    \/ responses[id][j].Priority > responses[id][i].Priority
                    \/ /\ responses[id][j].Priority = responses[id][i].Priority
                       /\ j < i })

\* the selections on endpoint id that returned, as positions of the log
ReturnsOf(id) == { n \in 1..Len(calls) : calls[n].op = "return" /\ calls[n].arg = id }

\* how many selections on endpoint id returned before position n
OrdinalOf(id, n) == Cardinality({ m \in ReturnsOf(id) : m < n })

\* C17: for round_robin selections on one endpoint over a stable valid list
\* of length N, the k-th selection (k from 0) observes the counter k and
\* returns the element of index k mod N of the priority-sorted valid list,
\* and any N successive selections return N different responses.
C17_RoundRobinRotation ==
    \A id \in RoundRobinEndpointIDs :
        LET N == Cardinality(ValidOf(id)) IN
        N > 0 =>
            /\ \A n \in ReturnsOf(id) :
                  /\ calls[n].counter = OrdinalOf(id, n)
                  /\ \E i \in ValidOf(id) :
                        /\ calls[n].response = Ptr(responses[id][i])
                        /\ RankOf(id, i) = OrdinalOf(id, n) % N
            /\ \A n \in ReturnsOf(id) :
                  LET window == { m \in ReturnsOf(id) :
                                    /\ OrdinalOf(id, m) >= OrdinalOf(id, n)
                                    /\ OrdinalOf(id, m) < OrdinalOf(id, n) + N }
                  IN  Cardinality(window) = N =>
                         Cardinality({ calls[m].response : m \in window }) = N

\* three selections on an endpoint with three valid responses that the sort
\* reorders: each was returned once, in priority order
C17_Witness ==
    /\ Cardinality(ValidOf("e1")) = 3
    /\ Cardinality(ReturnsOf("e1")) = 3
    /\ responses["e1"][1].Priority < responses["e1"][2].Priority
    /\ \A n \in ReturnsOf("e1") :
          \E i \in ValidOf("e1") :
              /\ calls[n].response = Ptr(responses["e1"][i])
              /\ RankOf("e1", i) = OrdinalOf("e1", n)

\* three selections on an endpoint with two valid responses: the third
\* returns the first of the sorted list again
C17_WitnessWrap ==
    /\ Cardinality(ValidOf("e1")) = 2
    /\ \E n \in ReturnsOf("e1") :
          /\ OrdinalOf("e1", n) = 2
          /\ \E i \in ValidOf("e1") :
                /\ calls[n].response = Ptr(responses["e1"][i])
                /\ RankOf("e1", i) = 0

DelayConfigs ==
    {ConfigEmpty, ConfigMalformed} \cup { ConfigDelay(n) : n \in -1..MaxTierDelay }

DelayProjects ==
    [ ID : {"p1"}, Alias : {"shop"}, Mode : {ModeMock}, ActiveProxy : {Nil},
      AdvanceConfig : DelayConfigs ]

DelayEndpoints ==
    [ ID : {"e1"}, UseProxy : {FALSE}, ProxyTarget : {Nil}, ResponseMode : {"random"},
      AdvanceConfig : DelayConfigs ]

DelayResponses ==
    { MockResponse("r1", 1, d, FALSE, << >>, StoredHeaders(TRUE, NoHeaders), 200, "hello") :
        d \in -1..MaxTierDelay }

DelayInit ==
    /\ pc = "applyDelay"
    /\ project \in {Nil} \cup { Ptr(p) : p \in DelayProjects }
    /\ endpoint \in {Nil} \cup { Ptr(e) : e \in DelayEndpoints }
    /\ response \in {Nil} \cup { Ptr(r) : r \in DelayResponses }
    /\ req \in { Request(H_None, "", Nil) }
    /\ responses = << >>
    /\ proxyCall = NoCall
    /\ result = Nil
    /\ calls = << >>
    /\ roundRobin = [id \in {} |-> 0]

\* the call s.applyDelay(project, endpoint, response)
ApplyDelay ==
    /\ pc = "applyDelay"
    /\ calls' = Delayed(calls, project, endpoint, response)
    /\ pc' = "slept"
    /\ UNCHANGED <<req, project, endpoint, responses, response, proxyCall, result, roundRobin>>

DelayNext == ApplyDelay

DelaySpec == DelayInit /\ [][DelayNext]_vars

(***************************************************************************)
(* Properties of the delay composer.                                       *)
(***************************************************************************)
\* the delay_ms a tier's advance_config holds: 0 when the tier is absent,
\* its blob is empty or does not parse
ConfiguredDelay(tierPtr) ==
    IF tierPtr # Nil /\ Deref(tierPtr).AdvanceConfig.raw = "json"
    THEN Deref(tierPtr).AdvanceConfig.delay_ms
    ELSE 0

\* the delays of the three tiers in the order response, endpoint, project
TierDelays ==
    << IF response # Nil THEN Deref(response).DelayMS ELSE 0,
       ConfiguredDelay(endpoint),
       ConfiguredDelay(project) >>

\* the first strictly positive value of the tuple, 0 when there is none
FirstPositive(t) ==
    IF \E i \in 1..Len(t) : t[i] > 0
    THEN t[CHOOSE i \in 1..Len(t) : t[i] > 0 /\ \A j \in 1..(i - 1) : t[j] <= 0]
    ELSE 0

\* C19: the delay applyDelay sleeps for a (project, endpoint, response)
\* triple is the first strictly positive value in the order response
\* delay_ms, endpoint delay_ms, project delay_ms, a tier that is absent, not
\* positive or unparseable being skipped, and zero when no tier is positive.
C19_FirstPositiveTier ==
    pc = "slept" =>
        /\ Len(calls) = 1
        /\ calls[1].op = "applyDelay"
        /\ calls[1].ms = FirstPositive(TierDelays)

\* a response without delay and an endpoint whose blob does not parse were
\* skipped for the positive delay of the project
C19_Witness ==
    /\ pc = "slept"
    /\ TierDelays[1] = 0 /\ response # Nil
    /\ endpoint # Nil /\ Deref(endpoint).AdvanceConfig = ConfigMalformed
    /\ TierDelays[3] > 0
    /\ calls[1].ms = TierDelays[3]

\* three different positive delays: the response's was slept
C19_WitnessResponse ==
    /\ pc = "slept"
    /\ TierDelays[1] > 0 /\ TierDelays[2] > TierDelays[1] /\ TierDelays[3] > TierDelays[2]
    /\ calls[1].ms = TierDelays[1]

(***************************************************************************)
(* The specification of the helper functions: one call of matchesRules,    *)
(* matchRuleValue, matchBodyRule or createMockResponse.  req is the        *)
(* request the call is given, response the stored response (nil for the    *)
(* calls that take none), result what the call was given and returned; the *)
(* other variables keep their initial values.                              *)
(***************************************************************************)
RichBody == "{\"id\":5,\"ok\":true,\"note\":\"\",\"ref\":null,\"user\":{\"env\":\"prod\"}}"

HelperRequests ==
    { Request(H_None, "", Nil),
      Request(H_None, "", Ptr("")),
      Request(H_Env, "env=prod", Ptr("{\"user\":{\"env\":\"prod\"}}")),
      Request(H_Env, "", Ptr(RichBody)),
      Request(H_Many, "env=prod", Ptr("hello")) }

\* the body rules matchBodyRule is called with
BodyRules ==
    { Rule("body", key, operator, value) :
        key \in {"", "id", "ok", "note", "ref", "user", "user.env", "user.name", "user.env.x"},
        operator \in {"equals", "CONTAINS"},
        value \in {"", "prod", "5", "true", "{\"env\":\"prod\"}"} }

\* the rules of the responses matchesRules is called with
HelperRules ==
    { Rule("header", "x-env", "Equals", "prod"),
      Rule("header", "Accept", "contains", "ro"),
      Rule("query", "env", "CONTAINS", "ro"),
      Rule("query", "env", "equals", "dev"),
      Rule("body", "user.env", "equals", "prod"),
      Rule("body", "user.name", "CONTAINS", "prod"),
      Rule("body", "id", "equals", "prod"),
      Rule("path", "user", "equals", "dev"),
      Rule("cookie", "env", "equals", "dev") }

\* the stored responses createMockResponse is called with
BuilderResponses ==
    { MockResponse("r1", 1, 0, FALSE, << >>, headers, status, body) :
        status \in {200, 404},
        body \in {"", "hello", "{\"env\":\"prod\"}"},
        headers \in {
      StoredHeaders(FALSE, NoHeaders),
      StoredHeaders(TRUE, NoHeaders),
      StoredHeaders(TRUE, [n \in {"Content-Type"} |-> "identity"]),
      StoredHeaders(TRUE, [n \in {"content-encoding"} |-> "GZIP"]),
      StoredHeaders(TRUE, [n \in {"CONTENT-ENCODING"} |-> "gzip"]),
      StoredHeaders(TRUE, [n \in {"Content-Encoding"} |-> "br"]),
      StoredHeaders(TRUE, [n \in {"Content-Encoding"} |-> "deflate"]),
      StoredHeaders(TRUE, [n \in {"Content-Encoding", "content-encoding"} |->
                              IF n = "Content-Encoding" THEN "gzip" ELSE "identity"]) } }

HelperInit ==
    /\ pc = "call"
    /\ req \in HelperRequests
    /\ project = Nil
    /\ endpoint = Nil
    /\ responses = << >>
    /\ response = Nil
    /\ proxyCall = NoCall
    /\ result = Nil
    /\ calls = << >>
    /\ roundRobin = [id \in {} |-> 0]

\* matchesRules(response, req), lines 352-376
MatchesRules ==
    /\ pc = "call"
    /\ \E rules \in UNION { [1..n -> HelperRules] : n \in 0..MaxRules } :
        LET mockResp == MockResponse("r1", 1, 0, FALSE, rules, StoredHeaders(TRUE, NoHeaders), 200, "hello") IN
        /\ response' = Ptr(mockResp)
        /\ result' = Ptr([fn |-> "matchesRules", value |-> matchesRules(mockResp, req)])
    /\ pc' = "returned"
    /\ UNCHANGED <<req, project, endpoint, responses, proxyCall, calls, roundRobin>>

\* matchRuleValue(operator, actual, expected), lines 420-429
MatchRuleValue ==
    /\ pc = "call"
    /\ \E operator \in {"equals", "Equals", "contains", "CONTAINS", "regex", ""},
          actual \in {"", "prod", "Prod", "ro", "dev", "hello"},
          expected \in {"", "prod", "Prod", "ro", "dev", "hello"} :
        result' = Ptr([fn |-> "matchRuleValue", operator |-> operator, actual |-> actual,
                       expected |-> expected,
                       value |-> matchRuleValue(operator, actual, expected)])
    /\ pc' = "returned"
    /\ UNCHANGED <<req, project, endpoint, responses, response, proxyCall, calls, roundRobin>>

\* matchBodyRule(rule, req), lines 391-417
MatchBodyRule ==
    /\ pc = "call"
    /\ \E rule \in BodyRules :
        result' = Ptr([fn |-> "matchBodyRule", rule |-> rule, value |-> matchBodyRule(rule, req)])
    /\ pc' = "returned"
    /\ UNCHANGED <<req, project, endpoint, responses, response, proxyCall, calls, roundRobin>>

\* createMockResponse(mockResp), lines 467-537
CreateMockResponse ==
    /\ pc = "call"
    /\ \E mockResp \in BuilderResponses :
        /\ response' = Ptr(mockResp)
        /\ \E out \in createMockResponse(mockResp) :
            result' = Ptr([fn |-> "createMockResponse", value |-> out])
    /\ pc' = "returned"
    /\ UNCHANGED <<req, project, endpoint, responses, proxyCall, calls, roundRobin>>

\* sortByPriority(responses), lines 340-349
SortByPriority ==
    /\ pc = "call"
    /\ \E list \in SelectorLists :
        /\ responses' = list
        /\ result' = Ptr([fn |-> "sortByPriority", value |-> sortByPriority(list)])
    /\ pc' = "returned"
    /\ UNCHANGED <<req, project, endpoint, response, proxyCall, calls, roundRobin>>

HelperNext ==
    \/ MatchesRules
    \/ MatchRuleValue
    \/ MatchBodyRule
    \/ CreateMockResponse
    \/ SortByPriority

HelperSpec == HelperInit /\ [][HelperNext]_vars

(***************************************************************************)
(* Vocabulary of the helper properties.                                    *)
(***************************************************************************)
\* the call of fn has returned
ReturnedFrom(fn) == pc = "returned" /\ Ret.fn = fn

\* part occurs in whole: some stretch of whole spells part
IsSubstring(part, whole) ==
    LET w == Chars(whole)
        p == Chars(part)
    IN \E i \in 0..Len(w) : i + Len(p) <= Len(w) /\ SubSeq(w, i + 1, i + Len(p)) = p

\* what a rule's operator asks of the value against the rule's value
Compare(operator, actual, expected) ==
    IF operator \in {"contains", "CONTAINS"} THEN IsSubstring(expected, actual)
    ELSE actual = expected

\* the rules of the response the call was given
RulesGiven == Deref(response).Rules

\* rule i of the response, of one of the three evaluated types, matches
RuleMatches(i) ==
    /\ RulesGiven[i].Type = "header" => matchHeaderRule(RulesGiven[i], req)
    /\ RulesGiven[i].Type = "query" => matchQueryRule(RulesGiven[i], req)
    /\ RulesGiven[i].Type = "body" => matchBodyRule(RulesGiven[i], req)

\* the body is a JSON object
DecodesAsObject(body) ==
    body \in {"{\"user\":{\"env\":\"prod\"}}", "{\"env\":\"prod\"}", RichBody}

\* the value of the body at the dot path, as text; "" where there is none
ValueAt(body, key) ==
    CASE key = "user.env" /\ body \in {"{\"user\":{\"env\":\"prod\"}}", RichBody} -> "prod"
      [] key = "user" /\ body \in {"{\"user\":{\"env\":\"prod\"}}", RichBody} -> "{\"env\":\"prod\"}"
      [] key = "id" /\ body = RichBody -> "5"
      [] key = "ok" /\ body = RichBody -> "true"
      [] OTHER -> ""

\* the body of the request of a matchBodyRule call
BodyGiven == Deref(req.Body)

\* C21: a response is valid exactly when every one of its header, query and
\* body rules matches the request; a response with no rules is always valid,
\* and a rule of type path or of an unknown type never makes it invalid.
C21_ValidIffAllRulesMatch ==
    ReturnedFrom("matchesRules") =>
        (Ret.value <=> \A i \in 1..Len(RulesGiven) : RuleMatches(i))

C21_Witness ==
    /\ ReturnedFrom("matchesRules")
    /\ Len(RulesGiven) = 2
    /\ RulesGiven[1].Type = "body" /\ RulesGiven[2].Type = "path"
    /\ Ret.value

C21_WitnessNoRules == ReturnedFrom("matchesRules") /\ Len(RulesGiven) = 0 /\ Ret.value

C21_WitnessInvalid ==
    /\ ReturnedFrom("matchesRules")
    /\ Len(RulesGiven) = 2
    /\ RuleMatches(1) /\ RulesGiven[2].Type = "query" /\ ~RuleMatches(2)
    /\ ~Ret.value

\* C22: the operator is matched without regard to letter case; equals holds
\* exactly when the two values are identical, contains exactly when the
\* rule's value occurs in the extracted one, and any other operator behaves
\* as equals.
C22_OperatorSemantics ==
    ReturnedFrom("matchRuleValue") =>
        (Ret.value <=> Compare(Ret.operator, Ret.actual, Ret.expected))

C22_Witness ==
    /\ ReturnedFrom("matchRuleValue")
    /\ Ret.operator = "CONTAINS" /\ Ret.actual = "prod" /\ Ret.expected = "ro"
    /\ Ret.value

C22_WitnessOther ==
    /\ ReturnedFrom("matchRuleValue")
    /\ Ret.operator = "regex" /\ Ret.actual = "prod" /\ Ret.expected = "ro"
    /\ ~Ret.value

C22_WitnessCase ==
    /\ ReturnedFrom("matchRuleValue")
    /\ Ret.operator = "Equals" /\ Ret.actual = "Prod" /\ Ret.expected = "prod"
    /\ ~Ret.value

\* C23 (as claimed): for a body rule on a body that is a JSON object, the
\* value compared is the one at the rule's dot path, the empty string when
\* the path is missing; the raw body is compared only when the body does not
\* decode or the rule's path is empty.
C23_RawBodyOnlyWithoutPath ==
    (ReturnedFrom("matchBodyRule") /\ req.Body # Nil) =>
        (Ret.value <=>
            Compare(Ret.rule.Operator,
                    IF DecodesAsObject(BodyGiven) /\ Ret.rule.Key # ""
                    THEN ValueAt(BodyGiven, Ret.rule.Key) ELSE BodyGiven,
                    Ret.rule.Value))

\* C23 (amended): for a body rule on a body that is a JSON object, the value
\* compared is the one at the rule's dot path when that value is not empty;
\* the raw body is compared when the body does not decode or the path yields
\* the empty string (missing path, empty path, null or empty-string leaf).
\* Without a body the rule does not match.
C23_RawBodyWhenValueEmpty ==
    ReturnedFrom("matchBodyRule") =>
        IF req.Body = Nil THEN ~Ret.value
        ELSE (Ret.value <=>
                Compare(Ret.rule.Operator,
                        IF DecodesAsObject(BodyGiven) /\ ValueAt(BodyGiven, Ret.rule.Key) # ""
                        THEN ValueAt(BodyGiven, Ret.rule.Key) ELSE BodyGiven,
                        Ret.rule.Value))

\* a missing path matched on the raw body
C23_Witness ==
    /\ ReturnedFrom("matchBodyRule")
    /\ req.Body # Nil /\ BodyGiven = RichBody
    /\ Ret.rule = Rule("body", "user.name", "CONTAINS", "prod")
    /\ Ret.value

\* a number at the path compared as text
C23_WitnessNumber ==
    /\ ReturnedFrom("matchBodyRule")
    /\ req.Body # Nil /\ BodyGiven = RichBody
    /\ Ret.rule = Rule("body", "id", "equals", "5")
    /\ Ret.value

\* an object at the path compared as its JSON text
C23_WitnessObject ==
    /\ ReturnedFrom("matchBodyRule")
    /\ req.Body # Nil
    /\ Ret.rule = Rule("body", "user", "equals", "{\"env\":\"prod\"}")
    /\ Ret.value

\* the position in the list given of the response at position i of the list returned
PlaceBefore(i) == CHOOSE k \in 1..Len(responses) : responses[k] = Ret.value[i]

\* C32: sortByPriority leaves a permutation of the list it was given, in
\* non-increasing order of priority, with responses of equal priority in
\* the order they had; for every list, the empty and one-element lists
\* included.
C32_StableDescendingSort ==
    ReturnedFrom("sortByPriority") =>
        /\ Len(Ret.value) = Len(responses)
        /\ \A k \in 1..Len(responses) : \E i \in 1..Len(Ret.value) : Ret.value[i] = responses[k]
        /\ \A i, j \in 1..Len(Ret.value) :
              i < j =>
                /\ Ret.value[i].Priority >= Ret.value[j].Priority
                /\ Ret.value[i].Priority = Ret.value[j].Priority => PlaceBefore(i) < PlaceBefore(j)

\* an ascending list with a tie: reversed by priority, the tie in its order
C32_Witness ==
    /\ ReturnedFrom("sortByPriority")
    /\ Len(responses) = 3
    /\ responses[1].Priority < responses[2].Priority
    /\ responses[2].Priority = responses[3].Priority
    /\ Ret.value = <<responses[2], responses[3], responses[1]>>

C32_WitnessEmpty == ReturnedFrom("sortByPriority") /\ responses = << >> /\ Ret.value = << >>

C32_WitnessThreeSteps ==
    /\ ReturnedFrom("sortByPriority")
    /\ Len(responses) = 3
    /\ responses[1].Priority < responses[2].Priority
    /\ responses[2].Priority < responses[3].Priority
    /\ Ret.value = <<responses[3], responses[2], responses[1]>>

\* the stored response createMockResponse was given, and what it returned
Stored == Deref(response)

Built == Deref(Ret.value.resp)

\* the encodings the stored headers declare: the values, in lower case, of
\* the headers named Content-Encoding in any letter case
Declared ==
    IF ~Stored.Headers.parses THEN {}
    ELSE { IF Stored.Headers.object[k] \in {"gzip", "GZIP"} THEN "gzip"
           ELSE Stored.Headers.object[k] :
             k \in DOMAIN Stored.Headers.object \cap
                     {"Content-Encoding", "content-encoding", "CONTENT-ENCODING"} }

\* reading a gzip stream: the bytes between header and trailer
GzipDecode(stream) ==
    IF /\ Len(stream) >= 3
       /\ stream[1] = "gzip-header"
       /\ stream[Len(stream) - 1] = "crc32"
       /\ stream[Len(stream)] = "isize"
    THEN SubSeq(stream, 2, Len(stream) - 2)
    ELSE <<"corrupt">>

\* reading a Brotli stream: the bytes between header and last block
BrotliDecode(stream) ==
    IF /\ Len(stream) >= 2
       /\ stream[1] = "brotli-header"
       /\ stream[Len(stream)] = "brotli-last"
    THEN SubSeq(stream, 2, Len(stream) - 1)
    ELSE <<"corrupt">>

\* C30: for a stored Content-Encoding of gzip or br (name in any letter case,
\* value lower-cased) decoding the returned body yields the stored body's
\* bytes and ContentLength is the size of the compressed body; for any other
\* or absent encoding, or stored headers that do not parse, the body is the
\* raw bytes and ContentLength their number; the status code is the stored one.
C30_EncodedBodyRoundTrips ==
    (ReturnedFrom("createMockResponse") /\ ~Ret.value.err) =>
        /\ Built.StatusCode = Stored.StatusCode
        /\ Built.ContentLength = Len(Built.Body.data)
        /\ \/ /\ "gzip" \in Declared
              /\ GzipDecode(Built.Body.data) = Chars(Stored.Body)
           \/ /\ "br" \in Declared
              /\ BrotliDecode(Built.Body.data) = Chars(Stored.Body)
           \/ /\ Declared = {} \/ Declared \ {"gzip", "br"} # {}
              /\ Built.Body.data = Chars(Stored.Body)

C30_Witness ==
    /\ ReturnedFrom("createMockResponse") /\ ~Ret.value.err
    /\ Stored.Headers.parses
    /\ DOMAIN Stored.Headers.object = {"content-encoding"}
    /\ Stored.Headers.object["content-encoding"] = "GZIP"
    /\ Stored.Body = "hello"
    /\ GzipDecode(Built.Body.data) = <<"h", "e", "l", "l", "o">>
    /\ Built.ContentLength = 8

C30_WitnessBrotli ==
    /\ ReturnedFrom("createMockResponse") /\ ~Ret.value.err
    /\ "br" \in Declared
    /\ Stored.Body = "hello"
    /\ BrotliDecode(Built.Body.data) = <<"h", "e", "l", "l", "o">>
    /\ Built.ContentLength = 7

C30_WitnessUnparseable ==
    /\ ReturnedFrom("createMockResponse") /\ ~Ret.value.err
    /\ ~Stored.Headers.parses
    /\ Stored.StatusCode = 404 /\ Built.StatusCode = 404
    /\ Built.Body.data = <<"h", "e", "l", "l", "o">>
    /\ Built.ContentLength = 5

C30_WitnessUnsupported ==
    /\ ReturnedFrom("createMockResponse") /\ ~Ret.value.err
    /\ Declared = {"deflate"}
    /\ Built.Body.data = <<"h", "e", "l", "l", "o">>

(***************************************************************************)
(* The specification of the request body: body rules evaluated one after   *)
(* another by matchBodyRule, then the forwarder's read.  req.Body is the   *)
(* reader: the bytes not read yet, and whether it is the reader of the     *)
(* connection, whose reads can fail, or one over bytes in memory.  calls   *)
(* begins with the body the client sent and logs every io.ReadAll.         *)
(***************************************************************************)
\* io.ReadAll(reader): the bytes not read yet, the reader left at its end; or
\* an error, for the reader of the connection
ReadAll(reader) ==
    { [err |-> FALSE, bytes |-> reader.unread, reader |-> [reader EXCEPT !.unread = ""]] }
    \cup (IF reader.network
          THEN { [err |-> TRUE, bytes |-> "", reader |-> [reader EXCEPT !.unread = ""]] }
          ELSE {})

BodyInit ==
    /\ pc = "rules"
    /\ \E sent \in {"", "hello", "{\"user\":{\"env\":\"prod\"}}", RichBody} :
        /\ req \in { Request(H_Env, "env=prod", body) :
                        body \in {Nil, Ptr([unread |-> sent, network |-> TRUE])} }
        /\ calls = <<Call("sent", IF req.Body = Nil THEN "" ELSE sent, 0)>>
    /\ project = Nil
    /\ endpoint = Nil
    /\ responses = << >>
    /\ response = Nil
    /\ proxyCall = EnterProxyCall("handleForwarderMode", ProjectProxyURL)
    /\ result = Nil
    /\ roundRobin = [id \in {} |-> 0]

\* the body rule evaluated without a fresh reader put in the body's place
EvalBodyRule_NoReseat ==
    /\ pc = "rules"
    /\ Len(calls) <= MaxReads
    /\ \E rule \in HelperRules :
        /\ rule.Type = "body"
        /\ IF req.Body = Nil
           THEN /\ result' = Ptr([rule |-> rule, matched |-> FALSE])
                /\ UNCHANGED <<req, calls>>
           ELSE \E read \in ReadAll(Deref(req.Body)) :
                /\ req' = [req EXCEPT !.Body = Ptr(read.reader)]
                /\ IF read.err
                   THEN /\ calls' = Append(calls, Call("io.ReadAll", "error", 0))
                        /\ result' = Ptr([rule |-> rule, matched |-> FALSE])
                   ELSE /\ calls' = Append(calls, Call("io.ReadAll", read.bytes, 0))
                        /\ result' = Ptr([rule |-> rule,
                                matched |-> matchBodyRule(rule, [req EXCEPT !.Body = Ptr(read.bytes)])])
    /\ UNCHANGED <<pc, project, endpoint, responses, response, proxyCall, roundRobin>>

\* matchBodyRule, lines 391-417, with its reads of the body: nil body, read
\* error (the consumed reader stays), or read, re-seat and match
EvalBodyRule ==
    /\ pc = "rules"
    /\ Len(calls) <= MaxReads
    /\ \E rule \in HelperRules :
        /\ rule.Type = "body"
        /\ IF req.Body = Nil
           THEN /\ result' = Ptr([rule |-> rule, matched |-> FALSE])
                /\ UNCHANGED <<req, calls>>
           ELSE \E read \in ReadAll(Deref(req.Body)) :
                IF read.err
                THEN /\ req' = [req EXCEPT !.Body = Ptr(read.reader)]
                     /\ calls' = Append(calls, Call("io.ReadAll", "error", 0))
                     /\ result' = Ptr([rule |-> rule, matched |-> FALSE])
                ELSE /\ req' = [req EXCEPT !.Body = Ptr([unread |-> read.bytes, network |-> FALSE])]
                     /\ calls' = Append(calls, Call("io.ReadAll", read.bytes, 0))
                     /\ result' = Ptr([rule |-> rule,
                                matched |-> matchBodyRule(rule, [req EXCEPT !.Body = Ptr(read.bytes)])])
    /\ UNCHANGED <<pc, project, endpoint, responses, response, proxyCall, roundRobin>>

\* executeProxyRequest, lines 216-233: read the body, re-seat it, and build
\* the outgoing request over the bytes read
ForwardBody ==
    /\ pc = "rules"
    /\ IF req.Body = Nil
       THEN /\ proxyCall' = [proxyCall EXCEPT
                               !.newReq = Ptr(NewRequest(proxyCall.target, "", req.Header))]
            /\ pc' = "forwarded"
            /\ UNCHANGED <<req, calls>>
       ELSE \E read \in ReadAll(Deref(req.Body)) :
            IF read.err
            THEN /\ req' = [req EXCEPT !.Body = Ptr(read.reader)]
                 /\ calls' = Append(calls, Call("io.ReadAll", "error", 0))
                 /\ proxyCall' = ProxyCallReturns(createErrorResponse(502, "Failed to read request body"))
                 /\ pc' = "proxy_return"
            ELSE /\ req' = [req EXCEPT !.Body = Ptr([unread |-> read.bytes, network |-> FALSE])]
                 /\ calls' = Append(calls, Call("io.ReadAll", read.bytes, 0))
                 /\ proxyCall' = [proxyCall EXCEPT
                                    !.bodyBytes = read.bytes,
                                    !.newReq = Ptr(NewRequest(proxyCall.target, read.bytes, req.Header))]
                 /\ pc' = "forwarded"
    /\ UNCHANGED <<project, endpoint, responses, response, result, roundRobin>>

BodyNext == EvalBodyRule \/ ForwardBody

BodySpec == BodyInit /\ [][BodyNext]_vars

\* the body the client sent
Sent == calls[1].arg

\* no read of the body has failed
ReadsSucceeded == \A i \in 2..Len(calls) : calls[i].arg # "error"

C24_WitnessNoBody ==
    /\ pc = "forwarded" /\ req.Body = Nil /\ result # Nil
    /\ Deref(proxyCall.newReq).Body = ""

(***************************************************************************)
(* The specification of a request routed back: the requests of Spec, and   *)
(* the upstream server being this service itself, so that the request the  *)
(* forwarder emits arrives at HandleRequest under some alias.  calls keeps *)
(* the upstream calls made so far across the hop.                          *)
(***************************************************************************)
\* lines 254-257 with this service as the target: the emitted request, with
\* the headers, query and body it was given, enters HandleRequest
RouteBack ==
    /\ pc = "exec_do"
    /\ Len(SelectSeq(calls, LAMBDA c : c.op = "client.Do")) < MaxHops
    /\ calls' = Append(SelectSeq(calls, LAMBDA c : c.op = "client.Do"),
                       Call("client.Do", proxyCall.target, 0))
    /\ req' = Request(Deref(proxyCall.newReq).Header, req.RawQuery, Ptr(Deref(proxyCall.newReq).Body))
    /\ pc' = "HandleRequest"
    /\ project' = Nil
    /\ endpoint' = Nil
    /\ responses' = << >>
    /\ response' = Nil
    /\ proxyCall' = NoCall
    /\ result' = Nil
    /\ UNCHANGED roundRobin

LoopNext == Next \/ RouteBack

LoopSpec == Init /\ [][LoopNext]_vars

\* the upstream calls made for the request, hops included
UpstreamCalls == Cardinality({ i \in 1..Len(calls) : calls[i].op = "client.Do" })

\* the request at hand is one this service emitted
RoutedBack == pc # "exec_do" /\ proxyCall.newReq = Nil /\ UpstreamCalls > 0

\* C26: every request the forwarder emits carries beo-echo-loop-detect:
\* true, and a request routed back into this service, under any alias and in
\* any mode, never causes a second upstream call: a chain of forwards has at
\* most one upstream hop.
C26_AtMostOneHop ==
    /\ proxyCall.newReq # Nil =>
            /\ "Beo-Echo-Loop-Detect" \in DOMAIN Deref(proxyCall.newReq).Header
            /\ Deref(proxyCall.newReq).Header["Beo-Echo-Loop-Detect"] = <<"true">>
    /\ UpstreamCalls <= 1
    /\ RoutedBack => CarriesBeoEchoHeader

\* a routed-back request rejected on a forwarding path
C26_Witness ==
    /\ RoutedBack /\ Done
    /\ project # Nil /\ ModeOf = ModeForwarder
    /\ IsErrorEnvelope(Ret.resp, 508)
    /\ UpstreamCalls = 1

\* a routed-back request served in mock mode by a stored response
C26_WitnessMock ==
    /\ RoutedBack /\ Done
    /\ project # Nil /\ ModeOf = ModeMock
    /\ IsMockResponse(Ret.resp)
    /\ UpstreamCalls = 1

\* a routed-back request on a mock endpoint that proxies
C26_WitnessUseProxy ==
    /\ RoutedBack /\ Done
    /\ project # Nil /\ ModeOf = ModeMock
    /\ IsErrorEnvelope(Ret.resp, 508)

(***************************************************************************)
(* The specification of the release workflow (Auto Docker Build): a pull   *)
(* request to the release branch runs job check-source-branch and then     *)
(* the steps of job release-docker-image, one after another.  req is the   *)
(* pull request: its head branch, the commit checked out, and the content  *)
(* of the VERSION file.  project is the remote: the commit each version's  *)
(* tag points at.  pc is the number of the next step of                    *)
(* release-docker-image, 0 while check-source-branch has not run.          *)
(* proxyCall holds the step outputs, result the conclusion of the run, and *)
(* calls logs what the run published: an image pushed, a tag created, a    *)
(* release published.                                                      *)
(***************************************************************************)
\* the steps of job release-docker-image in order: the step's name, its if:
\* condition (success() where it has none) and what it runs
Steps ==
    << [name |-> "Checkout repository", if |-> "success()", run |-> "uses"],
       [name |-> "Setup Node.js", if |-> "success()", run |-> "uses"],
       [name |-> "Setup Go", if |-> "success()", run |-> "uses"],
       [name |-> "Read version from VERSION file", if |-> "success()", run |-> "read_version"],
       [name |-> "Check if version tag exists", if |-> "success()", run |-> "check_tag"],
       [name |-> "Exit if tag already exists", if |-> "tag_exists != '0'", run |-> "exit 0"],
       [name |-> "Log in to GitHub Container Registry", if |-> "success()", run |-> "uses"],
       [name |-> "Set up Docker Buildx", if |-> "success()", run |-> "uses"],
       [name |-> "Build and Push Multi-Arch Docker image", if |-> "success()", run |-> "docker push"],
       [name |-> "Get PR Info via GitHub API", if |-> "success()", run |-> "uses"],
       [name |-> "Call Gemini to generate release summary", if |-> "success()", run |-> "script"],
       [name |-> "Create Git Tag", if |-> "success()", run |-> "git tag"],
       [name |-> "Create GitHub Release", if |-> "success()", run |-> "release"],
       [name |-> "Update CHANGELOG.md", if |-> "success()", run |-> "script"],
       [name |-> "Create Pull Request to update CHANGELOG.md", if |-> "success()", run |-> "uses"] >>

WorkflowInit ==
    /\ pc = 0
    /\ req \in [head : {"main", "dev"}, sha : {"c1", "c2"}, version : {"1.0.0", "1.1.0"}]
    /\ project \in [{"1.0.0", "1.1.0"} -> {"none", "c1", "c2"}]
    /\ proxyCall = [version |-> "", tag_exists |-> 0]
    /\ result = "running"
    /\ calls = << >>
    /\ endpoint = Nil
    /\ responses = << >>
    /\ response = Nil
    /\ roundRobin = [id \in {} |-> 0]

\* job check-source-branch: the run fails unless the pull request comes from
\* main, and release-docker-image needs it
CheckSourceBranch ==
    /\ pc = 0 /\ result = "running"
    /\ IF req.head # "main"
         THEN result' = "failure" /\ pc' = pc
         ELSE result' = result /\ pc' = 1
    /\ UNCHANGED <<req, project, endpoint, responses, response, proxyCall, calls, roundRobin>>

\* one step of release-docker-image.  A step whose if: condition is false is
\* skipped; a step that runs succeeds, and the next step follows, or fails,
\* and the job fails with every later step skipped.  A step that ends with
\* exit 0 succeeds.
RunStep ==
    /\ pc \in 1..Len(Steps) /\ result = "running"
    /\ LET s == Steps[pc]
           version == proxyCall.version
           advance == /\ pc' = pc + 1
                      /\ result' = IF pc = Len(Steps) THEN "success" ELSE result
       IN \/ /\ s.if = "tag_exists != '0'" /\ proxyCall.tag_exists = 0
             /\ advance
             /\ UNCHANGED <<project, proxyCall, calls>>
          \/ /\ s.if = "tag_exists != '0'" => proxyCall.tag_exists # 0
             /\ advance
             /\ CASE s.run = "read_version" ->
                        /\ proxyCall' = [proxyCall EXCEPT !.version = req.version]
                        /\ UNCHANGED <<project, calls>>
                  [] s.run = "check_tag" ->
                        \* git ls-remote --tags origin refs/tags/v<version> | wc -l
                        /\ proxyCall' = [proxyCall EXCEPT !.tag_exists =
                                            IF project[version] # "none" THEN 1 ELSE 0]
                        /\ UNCHANGED <<project, calls>>
                  [] s.run = "docker push" ->
                        /\ calls' = Append(calls, Call("docker push", version, 0))
                        /\ UNCHANGED <<project, proxyCall>>
                  [] s.run = "git tag" ->
                        \* the checkout holds no tags, so git tag succeeds; the
                        \* push creates the tag, or finds it at this commit
                        /\ project[version] \in {"none", req.sha}
                        /\ project' = [project EXCEPT ![version] = req.sha]
                        /\ calls' = IF project[version] = "none"
                                      THEN Append(calls, Call("git push", version, 0))
                                      ELSE calls
                        /\ UNCHANGED proxyCall
                  [] s.run = "release" ->
                        /\ calls' = Append(calls, Call("release", version, 0))
                        /\ UNCHANGED <<project, proxyCall>>
                  [] OTHER -> UNCHANGED <<project, proxyCall, calls>>
          \/ /\ s.if = "tag_exists != '0'" => proxyCall.tag_exists # 0
             /\ \/ s.run \in {"uses", "script", "docker push", "release"}
                \/ s.run = "git tag" /\ project[version] \notin {"none", req.sha}
             /\ result' = "failure"
             /\ UNCHANGED <<pc, project, proxyCall, calls>>
    /\ UNCHANGED <<req, endpoint, responses, response, roundRobin>>

WorkflowNext == CheckSourceBranch \/ RunStep

WorkflowSpec == WorkflowInit /\ [][WorkflowNext]_vars

\* what the run has published so far
Published(op) == \E i \in 1..Len(calls) : calls[i].op = op

\* the step "Exit if tag already exists" has run
ExitStepRan == pc > 6 /\ proxyCall.tag_exists # 0

\* C39: when the tag v<VERSION> already exists on the remote the release is
\* skipped: after the step "Exit if tag already exists" no Docker image is
\* built or pushed, no git tag is created and no GitHub release is published
\* in that run.
C39_SkippedWhenTagExists ==
    ExitStepRan =>
        /\ ~Published("docker push")
        /\ ~Published("git push")
        /\ ~Published("release")

\* the tag existed, the exit step ran, and the image was pushed all the same
C39_ImagePushedAnyway ==
    /\ ExitStepRan
    /\ project[req.version] # "none"
    /\ Published("docker push")

\* a run repeated on the commit the tag points at publishes the release again
C39_ReleasedAgain ==
    /\ ExitStepRan
    /\ result = "success"
    /\ Published("docker push") /\ Published("release") /\ ~Published("git push")

(***************************************************************************)
(* The specification of the API client's 401 interceptor: MaxRequests      *)
(* requests issued through apiClient and answered in any order.  The event *)
(* loop runs a handler from one await to the next without interruption, so *)
(* an action is the code between two awaits.  req holds the config of each *)
(* request; pc[i] the position of request i (idle, sent, awaiting a        *)
(* refresh, queued, resolved, rejected), the status of its last answer,    *)
(* the refresh its handler awaits and how often the interceptor has sent   *)
(* it again; result the                                                    *)
(* module-level flags; responses is failedQueue, the queued requests in    *)
(* order; project the auth store with the token it holds; calls logs the   *)
(* calls to the auth store, a refreshToken call with the state of the      *)
(* promise it returned (pending, rejected, or the token it resolved with). *)
(* The auth store lies outside this module: refreshToken is taken to       *)
(* return a promise that resolves with a non-empty token, which the store  *)
(* then holds, or rejects; logout to drop the token.                       *)
(***************************************************************************)
MaxRequests == 2

\* lines 122-135, the request interceptor: a request leaves with the token
\* of the auth store when the store holds one
WithAuth(config, token) ==
    IF token # "" THEN [config EXCEPT !.Authorization = token] ELSE config

InterceptorInit ==
    /\ req \in [1..MaxRequests ->
                    { [url |-> u, _retry |-> FALSE, Authorization |-> ""] :
                        u \in {"/projects", "/auth/refresh"} }]
    /\ pc = [i \in 1..MaxRequests |-> [at |-> "idle", status |-> 0, promise |-> 0, retries |-> 0]]
    /\ result = [isRefreshing |-> FALSE, refreshPromise |-> Nil, isRedirectingToLogin |-> FALSE]
    /\ responses = << >>
    /\ project = [token |-> "t0"]
    /\ calls = << >>
    /\ endpoint = Nil
    /\ response = Nil
    /\ proxyCall = NoCall
    /\ roundRobin = [id \in {} |-> 0]

\* the application calls apiClient(config)
SendRequest(i) ==
    /\ pc[i].at = "idle"
    /\ req' = [req EXCEPT ![i] = WithAuth(req[i], project.token)]
    /\ pc' = [pc EXCEPT ![i].at = "sent"]
    /\ UNCHANGED <<project, endpoint, responses, response, proxyCall, result, calls, roundRobin>>


\* the handler that starts or awaits a refresh whatever isRefreshing says
ReceiveResponse_NeverQueues(i) ==
    /\ pc[i].at = "sent"
    /\ \E status \in {200, 401, 500} :
        IF status = 200
        THEN /\ pc' = [pc EXCEPT ![i].status = status, ![i].at = "resolved"]
             /\ UNCHANGED <<req, project, responses, result, calls>>
        ELSE IF status = 401 /\ ~req[i]._retry
        THEN IF IsSubstring("/auth/refresh", req[i].url)
             THEN /\ calls' = Append(calls, Call("auth.logout", "", 0))
                  /\ project' = [project EXCEPT !.token = ""]
                  /\ pc' = [pc EXCEPT ![i].status = status, ![i].at = "rejected"]
                  /\ UNCHANGED <<req, responses, result>>
             ELSE /\ req' = [req EXCEPT ![i]._retry = TRUE]
                  /\ IF FALSE
                     THEN /\ responses' = Append(responses, i)
                          /\ pc' = [pc EXCEPT ![i].status = status, ![i].at = "queued"]
                          /\ UNCHANGED <<project, result, calls>>
                     ELSE IF result.refreshPromise # Nil
                     THEN /\ result' = [result EXCEPT !.isRefreshing = TRUE]
                          /\ pc' = [pc EXCEPT ![i].status = status, ![i].at = "awaiting existing",
                                              ![i].promise = Deref(result.refreshPromise)]
                          /\ UNCHANGED <<project, responses, calls>>
                     ELSE /\ calls' = Append(calls, Call("auth.refreshToken", "pending", 0))
                          /\ result' = [result EXCEPT !.isRefreshing = TRUE,
                                                      !.refreshPromise = Ptr(Len(calls) + 1)]
                          /\ pc' = [pc EXCEPT ![i].status = status, ![i].at = "awaiting", ![i].promise = Len(calls) + 1]
                          /\ UNCHANGED <<project, responses>>
        ELSE /\ pc' = [pc EXCEPT ![i].status = status, ![i].at = "rejected"]
             /\ UNCHANGED <<req, project, responses, result, calls>>
    /\ UNCHANGED <<endpoint, response, proxyCall, roundRobin>>


\* the handler that leaves the request unmarked
ReceiveResponse_NoRetryMark(i) ==
    /\ pc[i].at = "sent"
    /\ \E status \in {200, 401, 500} :
        IF status = 200
        THEN /\ pc' = [pc EXCEPT ![i].status = status, ![i].at = "resolved"]
             /\ UNCHANGED <<req, project, responses, result, calls>>
        ELSE IF status = 401 /\ ~req[i]._retry
        THEN IF IsSubstring("/auth/refresh", req[i].url)
             THEN /\ calls' = Append(calls, Call("auth.logout", "", 0))
                  /\ project' = [project EXCEPT !.token = ""]
                  /\ pc' = [pc EXCEPT ![i].status = status, ![i].at = "rejected"]
                  /\ UNCHANGED <<req, responses, result>>
             ELSE /\ req' = req
                  /\ IF result.isRefreshing
                     THEN /\ responses' = Append(responses, i)
                          /\ pc' = [pc EXCEPT ![i].status = status, ![i].at = "queued"]
                          /\ UNCHANGED <<project, result, calls>>
                     ELSE IF result.refreshPromise # Nil
                     THEN /\ result' = [result EXCEPT !.isRefreshing = TRUE]
                          /\ pc' = [pc EXCEPT ![i].status = status, ![i].at = "awaiting existing",
                                              ![i].promise = Deref(result.refreshPromise)]
                          /\ UNCHANGED <<project, responses, calls>>
                     ELSE /\ calls' = Append(calls, Call("auth.refreshToken", "pending", 0))
                          /\ result' = [result EXCEPT !.isRefreshing = TRUE,
                                                      !.refreshPromise = Ptr(Len(calls) + 1)]
                          /\ pc' = [pc EXCEPT ![i].status = status, ![i].at = "awaiting", ![i].promise = Len(calls) + 1]
                          /\ UNCHANGED <<project, responses>>
        ELSE /\ pc' = [pc EXCEPT ![i].status = status, ![i].at = "rejected"]
             /\ UNCHANGED <<req, project, responses, result, calls>>
    /\ UNCHANGED <<endpoint, response, proxyCall, roundRobin>>

\* lines 157-211 and 249-251: the answer to request i arrives.  A success
\* passes through; an error runs the handler up to its first await or its
\* return.
ReceiveResponse(i) ==
    /\ pc[i].at = "sent"
    /\ \E status \in {200, 401, 500} :
        IF status = 200
        THEN /\ pc' = [pc EXCEPT ![i].status = status, ![i].at = "resolved"]
             /\ UNCHANGED <<req, project, responses, result, calls>>
        ELSE IF status = 401 /\ ~req[i]._retry
        THEN IF IsSubstring("/auth/refresh", req[i].url)
             THEN /\ calls' = Append(calls, Call("auth.logout", "", 0))
                  /\ project' = [project EXCEPT !.token = ""]
                  /\ pc' = [pc EXCEPT ![i].status = status, ![i].at = "rejected"]
                  /\ UNCHANGED <<req, responses, result>>
             ELSE /\ req' = [req EXCEPT ![i]._retry = TRUE]
                  /\ IF result.isRefreshing
                     THEN /\ responses' = Append(responses, i)
                          /\ pc' = [pc EXCEPT ![i].status = status, ![i].at = "queued"]
                          /\ UNCHANGED <<project, result, calls>>
                     ELSE IF result.refreshPromise # Nil
                     THEN /\ result' = [result EXCEPT !.isRefreshing = TRUE]
                          /\ pc' = [pc EXCEPT ![i].status = status, ![i].at = "awaiting existing",
                                              ![i].promise = Deref(result.refreshPromise)]
                          /\ UNCHANGED <<project, responses, calls>>
                     ELSE /\ calls' = Append(calls, Call("auth.refreshToken", "pending", 0))
                          /\ result' = [result EXCEPT !.isRefreshing = TRUE,
                                                      !.refreshPromise = Ptr(Len(calls) + 1)]
                          /\ pc' = [pc EXCEPT ![i].status = status, ![i].at = "awaiting", ![i].promise = Len(calls) + 1]
                          /\ UNCHANGED <<project, responses>>
        ELSE /\ pc' = [pc EXCEPT ![i].status = status, ![i].at = "rejected"]
             /\ UNCHANGED <<req, project, responses, result, calls>>
    /\ UNCHANGED <<endpoint, response, proxyCall, roundRobin>>

\* line 211, auth.refreshToken(): a pending refresh settles, with a new token
\* or with an error
RefreshSettles ==
    \E k \in 1..Len(calls) :
        /\ calls[k].op = "auth.refreshToken" /\ calls[k].arg = "pending"
        /\ \E outcome \in {"t1", "t2", "rejected"} :
            /\ calls' = [calls EXCEPT ![k].arg = outcome]
            /\ project' = IF outcome = "rejected" THEN project
                          ELSE [project EXCEPT !.token = outcome]
        /\ UNCHANGED <<pc, req, endpoint, responses, response, proxyCall, result, roundRobin>>

\* the queue processed on success only: on an error the queued requests are
\* left where they are
processQueue_SuccessOnly(error, token) ==
    [j \in 1..MaxRequests |->
        IF (\E n \in 1..Len(responses) : responses[n] = j) /\ ~error /\ token # ""
        THEN [pc[j] EXCEPT !.at = "sent", !.retries = @ + 1]
        ELSE pc[j]]

\* lines 145-155 with the callbacks of lines 179-189: where each request is
\* after the queue was processed.  A queued request is rejected on an error
\* or an empty token and sent again otherwise.
processQueue(error, token) ==
    [j \in 1..MaxRequests |->
        IF \E n \in 1..Len(responses) : responses[n] = j
        THEN IF error \/ token = ""
             THEN [pc[j] EXCEPT !.at = "rejected"]
             ELSE [pc[j] EXCEPT !.at = "sent", !.retries = @ + 1]
        ELSE pc[j]]

\* the flags left as they are when the handler ends
finally_KeepsFlags(flags) == flags

\* lines 243-246, the finally block: both flags are cleared
finally(flags) == [flags EXCEPT !.isRefreshing = FALSE, !.refreshPromise = Nil]

\* lines 199-208 and 213-246: the refresh the handler of request i awaits
\* has settled and the handler runs to its end
Resume(i) ==
    /\ pc[i].at \in {"awaiting", "awaiting existing"}
    /\ calls[pc[i].promise].arg # "pending"
    /\ LET newToken == calls[pc[i].promise].arg
           retry(j) == WithAuth([req[j] EXCEPT !.Authorization = newToken], project.token)
       IN IF pc[i].at = "awaiting existing"
          THEN /\ IF newToken # "rejected"
                  THEN /\ req' = [req EXCEPT ![i] = retry(i)]
                       /\ pc' = [pc EXCEPT ![i].at = "sent", ![i].retries = @ + 1]
                  ELSE /\ pc' = [pc EXCEPT ![i].at = "rejected"]
                       /\ req' = req
               /\ UNCHANGED <<project, responses, result, calls>>
          ELSE /\ IF newToken # "rejected"
                  THEN /\ req' = [j \in 1..MaxRequests |->
                                    IF j = i \/ processQueue(FALSE, newToken)[j].at # pc[j].at
                                    THEN retry(j) ELSE req[j]]
                       /\ pc' = [processQueue(FALSE, newToken) EXCEPT
                                    ![i].at = "sent", ![i].retries = @ + 1]
                       /\ result' = finally(result)
                       /\ UNCHANGED <<project, calls>>
                  ELSE /\ pc' = [processQueue(TRUE, "") EXCEPT ![i].at = "rejected"]
                       /\ calls' = Append(calls, Call("auth.logout", "", 0))
                       /\ project' = [project EXCEPT !.token = ""]
                       /\ result' = finally([result EXCEPT !.isRedirectingToLogin = TRUE])
                       /\ req' = req
               /\ responses' = << >>
    /\ UNCHANGED <<endpoint, response, proxyCall, roundRobin>>

\* lines 237-239: two seconds after a failed refresh the redirect flag falls
RedirectTimer ==
    /\ result.isRedirectingToLogin
    /\ result' = [result EXCEPT !.isRedirectingToLogin = FALSE]
    /\ UNCHANGED <<pc, req, project, endpoint, responses, response, proxyCall, calls, roundRobin>>

InterceptorNext ==
    \/ \E i \in 1..MaxRequests : SendRequest(i) \/ ReceiveResponse(i) \/ Resume(i)
    \/ RefreshSettles
    \/ RedirectTimer

\* the event loop runs a handler whose promise has settled, and the refresh
\* call settles
InterceptorSpec ==
    /\ InterceptorInit
    /\ [][InterceptorNext]_vars
    /\ WF_vars(RefreshSettles)
    /\ WF_vars(\E i \in 1..MaxRequests : Resume(i))

\* the refreshToken calls made so far, and those whose promise is pending
RefreshCalls == { k \in 1..Len(calls) : calls[k].op = "auth.refreshToken" }

InFlight == { k \in RefreshCalls : calls[k].arg = "pending" }

\* request i is at one of the given positions
At(i, positions) == pc[i].at \in positions

\* C36: at most one auth.refreshToken() call is in flight at any time; a 401
\* that arrives while isRefreshing is true is appended to failedQueue and
\* starts no second refresh, whatever the order in which the failing
\* requests are answered.
C36_OneRefreshInFlight ==
    [][ /\ Cardinality(InFlight') <= 1
        /\ result.isRefreshing =>
            /\ RefreshCalls' = RefreshCalls
            /\ \A i \in 1..MaxRequests :
                 At(i, {"sent"}) /\ ~At(i, {"sent", "resolved", "rejected"})' =>
                    /\ At(i, {"queued"})'
                    /\ responses' = Append(responses, i) ]_vars

\* a 401 answered while the refresh of another request is in flight, queued
C36_Witness ==
    /\ \E i, j \in 1..MaxRequests :
        /\ At(i, {"awaiting"}) /\ At(j, {"queued"}) /\ pc[j].status = 401
        /\ responses = <<j>>
    /\ Cardinality(InFlight) = 1
    /\ Cardinality(RefreshCalls) = 1

\* a second refresh started after the first one was over
C36_WitnessSecondRefresh ==
    /\ Cardinality(RefreshCalls) = 2
    /\ Cardinality(InFlight) = 1

\* the url names the refresh endpoint
IsRefreshEndpoint(i) == IsSubstring("/auth/refresh", req[i].url)

\* C38: each request is sent again at most once after a 401: once its
\* _retry flag is set a further 401 on it is rejected, neither queued nor
\* starting a refresh; a 401 from the /auth/refresh endpoint logs the user
\* out and starts no refresh.  No request causes an unbounded loop of
\* refreshes and retries.
C38_RetriedAtMostOnce ==
    /\ \A i \in 1..MaxRequests :
        /\ pc[i].retries <= 1
        /\ pc[i].retries = 1 => req[i]._retry
        /\ pc[i].retries = 1 /\ ~At(i, {"sent"}) /\ pc[i].status = 401 => At(i, {"rejected"})
        /\ IsRefreshEndpoint(i) =>
            /\ ~req[i]._retry /\ pc[i].retries = 0
            /\ At(i, {"idle", "sent", "resolved", "rejected"})
            /\ pc[i].status = 401 =>
                    /\ At(i, {"rejected"})
                    /\ \E k \in 1..Len(calls) : calls[k].op = "auth.logout"
    /\ Cardinality(RefreshCalls) <=
            Cardinality({ i \in 1..MaxRequests : req[i]._retry /\ ~IsRefreshEndpoint(i) })

\* a request sent again after a refresh, answered 401 again and rejected,
\* with no second refresh
C38_Witness ==
    \E i \in 1..MaxRequests :
        /\ pc[i].retries = 1 /\ pc[i].status = 401 /\ At(i, {"rejected"})
        /\ Cardinality(RefreshCalls) = 1
        /\ calls[1].arg \in {"t1", "t2"}
        /\ req[i].Authorization = calls[1].arg

\* a 401 from the refresh endpoint: logged out, rejected, no refresh
C38_WitnessRefreshEndpoint ==
    \E i \in 1..MaxRequests :
        /\ IsRefreshEndpoint(i) /\ pc[i].status = 401 /\ At(i, {"rejected"})
        /\ calls = <<Call("auth.logout", "", 0)>>
        /\ project.token = ""

\* the refresh that refreshPromise holds has settled
RefreshSettled == result.refreshPromise # Nil /\ Deref(result.refreshPromise) \notin InFlight

\* C40: whenever another handler can run, isRefreshing is true exactly when
\* refreshPromise is non-null: both are set in one step before the refresh
\* is awaited and cleared together in the finally block.  So the branch that
\* awaits an already existing refreshPromise is never taken, a handler that
\* will clear the flags is waiting as long as isRefreshing is true, and
\* isRefreshing does not stay true once the refresh has settled.
C40_FlagsAgree ==
    /\ [](/\ result.isRefreshing <=> result.refreshPromise # Nil
          /\ \A i \in 1..MaxRequests : ~At(i, {"awaiting existing"})
          /\ result.isRefreshing =>
                \E i \in 1..MaxRequests :
                    At(i, {"awaiting"}) /\ pc[i].promise = Deref(result.refreshPromise))
    /\ (RefreshSettled ~> ~result.isRefreshing)

\* a refresh has settled, the handler that awaits it has not run yet, and
\* another request has been queued in between
C40_Witness ==
    /\ RefreshSettled /\ result.isRefreshing
    /\ Len(responses) = 1

\* the flags cleared by the finally block after a failed refresh
C40_WitnessCleared ==
    /\ ~result.isRefreshing /\ result.refreshPromise = Nil
    /\ result.isRedirectingToLogin
    /\ \E k \in RefreshCalls : calls[k].arg = "rejected"

\* the requests in failedQueue
Queued == { responses[n] : n \in 1..Len(responses) }

\* C37: every request queued in failedQueue while a refresh is in flight is
\* settled when that refresh settles: sent again with the new token if the
\* refresh succeeded, rejected if it failed.  The queue holds the waiting
\* requests and nothing else, it is empty once the refresh is over, and,
\* the refresh call settling, no queued request waits forever.
C37_QueueSettledWithRefresh ==
    /\ [](/\ Queued = { i \in 1..MaxRequests : At(i, {"queued"}) }
          /\ Cardinality(Queued) = Len(responses)
          /\ ~result.isRefreshing => responses = << >>)
    /\ [][\A i \in Queued :
            \/ At(i, {"queued"})' /\ i \in Queued' /\ result.isRefreshing'
            \/ /\ RefreshSettled /\ ~result.isRefreshing' /\ responses' = << >>
               /\ LET newToken == calls[Deref(result.refreshPromise)].arg
                  IN IF newToken = "rejected"
                     THEN At(i, {"rejected"})'
                     ELSE /\ At(i, {"sent"})'
                          /\ pc'[i].retries = 1
                          /\ req'[i].Authorization = newToken]_vars
    /\ \A i \in 1..MaxRequests : At(i, {"queued"}) ~> ~At(i, {"queued"})

\* a queued request sent again with the token of the refresh it waited for,
\* the queue empty again
C37_Witness ==
    /\ \A i \in 1..MaxRequests :
        /\ At(i, {"sent"}) /\ pc[i].retries = 1 /\ pc[i].status = 401
        /\ req[i].Authorization = calls[1].arg
    /\ Cardinality(RefreshCalls) = 1 /\ Len(calls) = 1
    /\ calls[1].arg \in {"t1", "t2"}
    /\ responses = << >> /\ ~result.isRefreshing

\* a queued request rejected with a refresh that failed
C37_WitnessRejected ==
    /\ \A i \in 1..MaxRequests :
        /\ At(i, {"rejected"}) /\ pc[i].retries = 0 /\ req[i]._retry
    /\ calls = <<Call("auth.refreshToken", "rejected", 0), Call("auth.logout", "", 0)>>
    /\ responses = << >> /\ ~result.isRefreshing

=============================================================================
